---- MODULE Spec2Model ----
(***************************************************************************)
(* Neurelo Connect MCP server: the dynamic tool registrar (mcp.ts), the    *)
(* engine client facade (engine-client.ts) and the streaming-HTTP session  *)
(* registry, as a state machine.                                           *)
(***************************************************************************)
EXTENDS Integers, Sequences, FiniteSets, Bags, TLC

VARIABLES
  cfg,               \* MCPOptions handed to startMcpServer
  engineEndpoints,   \* the endpoint metadata the engine currently serves
  pc,                \* position of startMcpServer
  builtinIdx,        \* next built-in tool block of startMcpServer
  snapshot,          \* endpoints.data fetched by the static branch
  epIdx,             \* next endpoint of the for-loop of addEndpoints
  tools,             \* McpServer._registeredTools: name -> handler
  regLog,            \* names passed to server.tool, in call order
  compiled,          \* schemas handed to getZodSchemaFromJsonSchema, in order
  startError,        \* the error startMcpServer rejected with
  getEndpointsCalls, \* number of engine.getEndpoints() calls of startMcpServer
  transports,        \* the session registry of the streaming-HTTP mode
  sessions,          \* sessionId -> state of that SSE connection
  lastPost,          \* the POST /messages the latest step handled, its response
  calls,             \* executeRequest calls made on the facade, in order
  serverTransport,   \* Protocol._transport of the one McpServer instance
  inflight,          \* bag of the tool invocations awaiting their engine call
  lastDone,          \* the tool invocation the latest step settled, its response
  lastParse          \* the latest safeParse of a compiled validator

vars == <<cfg, engineEndpoints, pc, builtinIdx, snapshot, epIdx, tools, regLog,
          compiled, startError, getEndpointsCalls, transports, sessions,
          lastPost, calls, serverTransport, inflight, lastDone, lastParse>>

startupVars == <<pc, builtinIdx, snapshot, epIdx, tools, regLog, compiled,
                 startError, getEndpointsCalls>>

httpVars == <<transports, sessions, lastPost>>

serveVars == <<serverTransport, inflight, lastDone>>

(***************************************************************************)
(* Bounds                                                                  *)
(***************************************************************************)
MaxDisabled == 1
MaxEndpoints == 2
MaxCalls == 1
MaxSessions == 2
MaxInflight == 2
MaxItems == 2

(***************************************************************************)
(* JavaScript values: string | number | boolean, tagged by typeof          *)
(***************************************************************************)
JsStr(s) == [t |-> "string", s |-> s]

JsNum(n) == [t |-> "number", n |-> n]

JsBool(b) == [t |-> "boolean", b |-> b]

undefined == [t |-> "undefined"]

JsArray(items) == [t |-> "array", items |-> items]

\* String(value) of engine-client.ts:167
BadString(v) ==
  CASE v.t = "string" -> v.s
    [] v.t = "number" -> ToString(v.n)
    [] v.t = "boolean" -> IF v.b THEN "1" ELSE "0"

String(v) ==
  CASE v.t = "string" -> v.s
    [] v.t = "number" -> ToString(v.n)
    [] v.t = "boolean" -> IF v.b THEN "true" ELSE "false"

(***************************************************************************)
(* Engine client facade                                                    *)
(***************************************************************************)
\* the for-loop of executeRequest: every value replaced by String(value)
StringifyParameters(parameters) ==
  [key \in DOMAIN parameters |-> JsStr(String(parameters[key]))]

\* executeRequest: the operations issued on the generated client, in order
executeRequestAnyCase(args) ==
  IF args.requestMethod \in {"GET", "get"}
    THEN << [op |-> "executeEndpointOnGet", path |-> args.path,
             parameters |-> StringifyParameters(args.parameters)] >>
    ELSE << [op |-> "executeEndpointOnPost", path |-> args.path,
             parameters |-> args.parameters] >>

executeRequest(args) ==
  IF args.requestMethod = "GET"
    THEN << [op |-> "executeEndpointOnGet", path |-> args.path,
             parameters |-> StringifyParameters(args.parameters)] >>
    ELSE << [op |-> "executeEndpointOnPost", path |-> args.path,
             parameters |-> args.parameters] >>

(***************************************************************************)
(* JSON-Schema fragments (ParameterSpec.schema) and the json-schema-to-zod *)
(* transformation                                                          *)
(***************************************************************************)
SString == [type |-> "string"]

SNumber == [type |-> "number"]

SBoolean == [type |-> "boolean"]

SArray == [type |-> "array", items |-> SNumber]

SObject == [type |-> "object"]

SEnum ==
  [type |-> "string", enum |-> JsArray(<<JsStr("a"), JsStr("b"), JsStr("c")>>)]

SOneOf == [oneOf |-> <<SString, SNumber>>]

\* the "complex" fragment of the test: declared properties (in declaration
\* order), a required list and additionalProperties: false
SComplex ==
  [type |-> "object",
   properties |-> <<[name |-> "name", schema |-> SString],
                    [name |-> "age", schema |-> SNumber]>>,
   required |-> <<"name">>,
   additionalProperties |-> JsBool(FALSE)]

\* a oneOf inside a oneOf: the generated code holds two TypeScript annotations
SNestedOneOf == [oneOf |-> <<SOneOf, SBoolean>>]

\* enum that is no array: parseEnum of the library raises a TypeError
SMalformed == [enum |-> JsStr("abc")]

RECURSIVE SumAnnotations(_)
SumAnnotations(codes) ==
  IF codes = <<>> THEN 0
  ELSE Head(codes).annotations + SumAnnotations(Tail(codes))

\* jsonSchemaToZod(jsonSchema, {module: "none", ...}): the generated source text,
\* kept as its zod expression and the number of "<z.ZodError[]>" annotations in
\* it (one per oneOf of two or more alternatives); raises on a malformed fragment
RECURSIVE jsonSchemaToZod(_)
jsonSchemaToZod(jsonSchema) ==
  LET fields == DOMAIN jsonSchema IN
  CASE "type" \in fields /\ jsonSchema.type = "object"
         /\ "properties" \in fields ->
         \* parseObject: z.object({...}), a property outside `required` gets
         \* .optional(); additionalProperties false gives .strict(), true
         \* .catchall(z.any())
         LET properties == jsonSchema.properties
             parsed == [i \in DOMAIN properties |->
                          jsonSchemaToZod(properties[i].schema)]
             required == IF "required" \in fields
                           THEN {jsonSchema.required[i] :
                                   i \in DOMAIN jsonSchema.required}
                           ELSE {}
         IN
         IF \E i \in DOMAIN parsed : ~parsed[i].ok
           THEN [ok |-> FALSE, cause |-> "TypeError"]
           ELSE [ok |-> TRUE, annotations |-> SumAnnotations(parsed),
                 expr |-> [z |-> "object",
                           shape |-> [i \in DOMAIN properties |->
                                        [name |-> properties[i].name,
                                         schema |-> parsed[i].expr,
                                         optional |->
                                           properties[i].name \notin required]],
                           unknownKeys |->
                             IF "additionalProperties" \notin fields
                               THEN "strip"
                             ELSE IF jsonSchema.additionalProperties = JsBool(FALSE)
                               THEN "strict"
                             ELSE "passthrough"]]
    [] "type" \in fields /\ jsonSchema.type = "object" ->
         [ok |-> TRUE, annotations |-> 0, expr |-> [z |-> "record"]]
    [] "type" \in fields /\ jsonSchema.type = "array" ->
         LET item == jsonSchemaToZod(jsonSchema.items) IN
         IF item.ok
           THEN [ok |-> TRUE, annotations |-> item.annotations,
                 expr |-> [z |-> "array", element |-> item.expr]]
           ELSE item
    [] "oneOf" \in fields ->
         LET parsed == [i \in 1..Len(jsonSchema.oneOf) |->
                          jsonSchemaToZod(jsonSchema.oneOf[i])] IN
         IF \E i \in DOMAIN parsed : ~parsed[i].ok
           THEN [ok |-> FALSE, cause |-> "TypeError"]
           ELSE IF Len(parsed) = 0
             THEN [ok |-> TRUE, annotations |-> 0, expr |-> [z |-> "any"]]
           ELSE IF Len(parsed) = 1
             THEN parsed[1]
           ELSE [ok |-> TRUE, annotations |-> 1 + SumAnnotations(parsed),
                 expr |-> [z |-> "oneOf",
                           options |-> [i \in DOMAIN parsed |-> parsed[i].expr]]]
    [] "enum" \in fields ->
         IF jsonSchema.enum.t # "array"
           THEN [ok |-> FALSE, cause |-> "TypeError"]
           ELSE [ok |-> TRUE, annotations |-> 0,
                 expr |-> [z |-> "enum", values |-> jsonSchema.enum.items]]
    [] "type" \in fields /\ jsonSchema.type \in {"string", "number", "boolean"} ->
         [ok |-> TRUE, annotations |-> 0, expr |-> [z |-> jsonSchema.type]]
    [] OTHER -> [ok |-> TRUE, annotations |-> 0, expr |-> [z |-> "any"]]

\* zodSchemaString.replace(tsAnnotationRegex, ""): the regex has no g flag, so
\* the first match only is removed
ReplaceTsAnnotation(code) ==
  [code EXCEPT !.annotations = IF @ > 0 THEN @ - 1 ELSE 0]

\* new Function("z", functionString)(z): a SyntaxError when the text still
\* holds a TypeScript annotation, the validator otherwise
NewFunction(code) ==
  IF code.annotations > 0
    THEN [ok |-> FALSE, error |-> [name |-> "SyntaxError"]]
    ELSE [ok |-> TRUE, value |-> code.expr]

ZodSchemaConversionError(jsonSchema) ==
  [name |-> "ZodSchemaConversionError", sourceSchema |-> jsonSchema]

getZodSchemaFromJsonSchema(jsonSchema) ==
  LET zodSchemaString == jsonSchemaToZod(jsonSchema) IN
  IF ~zodSchemaString.ok
    THEN [ok |-> FALSE, error |-> ZodSchemaConversionError(jsonSchema)]
    ELSE NewFunction(ReplaceTsAnnotation(zodSchemaString))

\* zodSchema.safeParse(value).success of the validator the generated code
\* builds: z.record(z.any()) takes plain objects only, z.array every array
\* whose items all parse, z.enum the listed strings, and the superRefine of a
\* oneOf the values that exactly one alternative parses
RECURSIVE safeParse(_, _)
safeParse(zodSchema, value) ==
  CASE zodSchema.z = "any" -> TRUE
    [] zodSchema.z \in {"string", "number", "boolean"} -> value.t = zodSchema.z
    [] zodSchema.z = "record" -> value.t = "object"
    [] zodSchema.z = "object" ->
         /\ value.t = "object"
         /\ \A i \in DOMAIN zodSchema.shape :
              IF zodSchema.shape[i].name \in DOMAIN value.v
                THEN safeParse(zodSchema.shape[i].schema,
                               value.v[zodSchema.shape[i].name])
                ELSE zodSchema.shape[i].optional
         /\ zodSchema.unknownKeys = "strict" =>
              DOMAIN value.v \subseteq
                {zodSchema.shape[i].name : i \in DOMAIN zodSchema.shape}
    [] zodSchema.z = "array" ->
         /\ value.t = "array"
         /\ \A i \in DOMAIN value.items :
              safeParse(zodSchema.element, value.items[i])
    [] zodSchema.z = "enum" ->
         \E i \in DOMAIN zodSchema.values : zodSchema.values[i] = value
    [] zodSchema.z = "oneOf" ->
         Cardinality({i \in DOMAIN zodSchema.options :
                        safeParse(zodSchema.options[i], value)}) = 1

\* the JSON-Schema {} of zod-to-json-schema for z.any()
AnySchema == [k \in {} |-> TRUE]

parseRecordDefOmitting(additionalProperties) == [type |-> "object"]

\* z.record(valueType): the value type's schema becomes additionalProperties
parseRecordDef(additionalProperties) ==
  [type |-> "object", additionalProperties |-> additionalProperties]

\* zod-to-json-schema, one validator node: a ZodEffects (the superRefine of a
\* oneOf) is described by its inner z.any(); an object lists its non-optional
\* keys as `required` when there are any, and additionalProperties: false
\* unless it has a catchall
RECURSIVE parseDef(_)
parseDef(zodSchema) ==
  CASE zodSchema.z \in {"string", "number", "boolean"} -> [type |-> zodSchema.z]
    [] zodSchema.z = "record" -> parseRecordDef(AnySchema)
    [] zodSchema.z = "array" ->
         [type |-> "array", items |-> parseDef(zodSchema.element)]
    [] zodSchema.z = "enum" ->
         [type |-> "string", enum |-> JsArray(zodSchema.values)]
    [] zodSchema.z = "object" ->
         LET shape == zodSchema.shape
             required == SelectSeq(shape, LAMBDA entry : ~entry.optional)
         IN
         [type |-> "object",
          properties |-> [i \in DOMAIN shape |->
                            [name |-> shape[i].name,
                             schema |-> parseDef(shape[i].schema)]],
          additionalProperties |->
            IF zodSchema.unknownKeys = "passthrough" THEN AnySchema
                                                     ELSE JsBool(FALSE)]
           @@ (IF required = <<>> THEN AnySchema
               ELSE [required |-> [i \in DOMAIN required |-> required[i].name]])
    [] OTHER -> AnySchema

\* zodToJsonSchema(zodSchema): the schema of the validator under the draft marker
zodToJsonSchema(zodSchema) ==
  ("$schema" :> "http://json-schema.org/draft-07/schema#") @@ parseDef(zodSchema)

(***************************************************************************)
(* Endpoint metadata                                                       *)
(***************************************************************************)
Param(name, schema, optional) ==
  [name |-> name, schema |-> schema, optional |-> optional,
   description |-> "param " \o name]

Endpoint(path, requestMethod, params) ==
  [path |-> path, requestMethod |-> requestMethod,
   description |-> "endpoint " \o path, params |-> params]

\* testEngineClient.getEndpoints
TestEndpoints == << [path |-> "test", requestMethod |-> "GET",
                     description |-> "Test endpoint", params |-> <<>>] >>

EpA == Endpoint("a", "GET", <<>>)

EpB == Endpoint("b", "POST", <<Param("x", SString, FALSE), Param("y", SOneOf, TRUE)>>)

\* a second endpoint with the path of EpA
EpA2 == Endpoint("a", "POST", <<Param("x", SNumber, FALSE)>>)

\* two parameters without a schema
EpC == Endpoint("c", "GET", <<Param("x", undefined, FALSE), Param("y", undefined, FALSE)>>)

\* a parameter whose schema the transformation raises on, before one without schema
EpD == Endpoint("d", "POST", <<Param("x", SArray, TRUE), Param("y", SMalformed, FALSE),
                            Param("z", undefined, FALSE)>>)

\* a parameter whose generated validator code does not evaluate
EpE == Endpoint("e", "GET", <<Param("x", SNestedOneOf, FALSE)>>)

\* a required parameter whose schema is {} and an optional number
EpF == Endpoint("f", "POST", <<Param("u", AnySchema, FALSE), Param("n", SNumber, TRUE)>>)

\* the endpoint b after its definition was changed on the engine
EpB2 == Endpoint("b", "GET", <<Param("x", SNumber, FALSE)>>)

EndpointCandidates == {EpA, EpB, EpA2, EpC, EpD, EpE}

RECURSIVE SeqsUpTo(_, _)
SeqsUpTo(S, n) ==
  IF n = 0 THEN {<<>>}
  ELSE LET shorter == SeqsUpTo(S, n - 1) IN
       shorter \cup {Append(q, x) : q \in shorter, x \in S}

Snapshots == SeqsUpTo(EndpointCandidates, MaxEndpoints)

(***************************************************************************)
(* Tool registration                                                       *)
(***************************************************************************)
NoError == [name |-> "none"]

NoTools == [n \in {} |-> NoError]

\* `${toolPrefix ? `${toolPrefix}_` : ""}${base}`; an unset prefix is ""
ToolName(toolPrefix, base) ==
  (IF toolPrefix # "" THEN toolPrefix \o "_" ELSE "") \o base

\* server.tool(name, ..., handler) of the MCP SDK: the name is added to the
\* registered tools, and a name that is registered already is an error
ServerTool(registered, name, handler) ==
  IF name \in DOMAIN registered
    THEN [ok |-> FALSE, tools |-> registered, names |-> <<>>,
          error |-> [name |-> "Error",
                     message |-> "Tool " \o name \o " is already registered"]]
    ELSE [ok |-> TRUE, tools |-> registered @@ (name :> handler),
          names |-> <<name>>]

\* the six built-in blocks of startMcpServer, in source order
BuiltinTools ==
  << [name |-> "system_list_databases", facade |-> "getTargets"],
     [name |-> "system_get_database_status", facade |-> "getTargetDbStatus"],
     [name |-> "system_get_status", facade |-> "getStatus"],
     [name |-> "system_get_database_schema", facade |-> "getSchema"],
     [name |-> "raw_readonly_query", facade |-> "executeReadonlyQuery"],
     [name |-> "raw_query", facade |-> "executeReadWriteQuery"] >>

BuiltinNames == {BuiltinTools[i].name : i \in DOMAIN BuiltinTools}

BuiltinHandler(i) == [kind |-> "builtin", facade |-> BuiltinTools[i].facade]

\* one `if (!disableTools?.includes(name)) server.tool(prefix + name, ...)` block
RegisterBuiltinNextDisabled(registered, options, i) ==
  IF BuiltinTools[i].name \in options.disableTools
       \/ (i > 1 /\ BuiltinTools[i - 1].name \in options.disableTools)
    THEN [ok |-> TRUE, tools |-> registered, names |-> <<>>]
    ELSE ServerTool(registered, ToolName(options.toolPrefix, BuiltinTools[i].name),
                    BuiltinHandler(i))

RegisterBuiltin(registered, options, i) ==
  IF BuiltinTools[i].name \in options.disableTools
    THEN [ok |-> TRUE, tools |-> registered, names |-> <<>>]
    ELSE ServerTool(registered, ToolName(options.toolPrefix, BuiltinTools[i].name),
                    BuiltinHandler(i))

NoSchemaError(name, path) ==
  [name |-> "Error",
   message |-> "No schema found for parameter " \o name \o " in endpoint " \o path]

\* Object.entries(endpoint.params).map(...) of addEndpoints: the entries, the
\* schemas handed to the compiler on the way, and the first error thrown
RECURSIVE parameterEntriesSkipMissing(_, _)
parameterEntriesSkipMissing(params, path) ==
  IF params = <<>>
    THEN [ok |-> TRUE, entries |-> <<>>, handed |-> <<>>]
    ELSE
      LET param == Head(params) IN
      IF param.schema = undefined
        THEN parameterEntriesSkipMissing(Tail(params), path)
        ELSE
          LET schema == getZodSchemaFromJsonSchema(param.schema)
              here == <<[path |-> path, param |-> param.name,
                         schema |-> param.schema]>>
          IN
          IF ~schema.ok
            THEN [ok |-> FALSE, handed |-> here, error |-> schema.error]
            ELSE
              LET rest == parameterEntriesSkipMissing(Tail(params), path) IN
              IF rest.ok
                THEN [ok |-> TRUE,
                      entries |-> <<[name |-> param.name,
                                     validator |-> schema.value,
                                     optional |-> param.optional,
                                     description |-> param.description]>>
                                  \o rest.entries,
                      handed |-> here \o rest.handed]
                ELSE [rest EXCEPT !.handed = here \o @]

RECURSIVE parameterEntries(_, _)
parameterEntries(params, path) ==
  IF params = <<>>
    THEN [ok |-> TRUE, entries |-> <<>>, handed |-> <<>>]
    ELSE
      LET param == Head(params) IN
      IF param.schema = undefined
        THEN [ok |-> FALSE, handed |-> <<>>,
              error |-> NoSchemaError(param.name, path)]
        ELSE
          LET schema == getZodSchemaFromJsonSchema(param.schema)
              here == <<[path |-> path, param |-> param.name,
                         schema |-> param.schema]>>
          IN
          IF ~schema.ok
            THEN [ok |-> FALSE, handed |-> here, error |-> schema.error]
            ELSE
              LET rest == parameterEntries(Tail(params), path) IN
              IF rest.ok
                THEN [ok |-> TRUE,
                      entries |-> <<[name |-> param.name,
                                     validator |-> schema.value,
                                     optional |-> param.optional,
                                     description |-> param.description]>>
                                  \o rest.entries,
                      handed |-> here \o rest.handed]
                ELSE [rest EXCEPT !.handed = here \o @]

EndpointHandler(endpoint, entries) ==
  [kind |-> "endpoint", path |-> endpoint.path,
   requestMethod |-> endpoint.requestMethod, inputSchema |-> entries]

\* one iteration of the for-loop of addEndpoints: the parameter schemas are
\* compiled, then the tool is registered unless `query_<path>` is disabled
AddEndpointPrefixedDisable(registered, options, endpoint) ==
  LET compiledEntries == parameterEntries(endpoint.params, endpoint.path) IN
  IF ~compiledEntries.ok
    THEN [ok |-> FALSE, tools |-> registered, names |-> <<>>,
          handed |-> compiledEntries.handed, error |-> compiledEntries.error]
    ELSE IF ToolName(options.toolPrefix, "query_" \o endpoint.path)
              \in options.disableTools
      THEN [ok |-> TRUE, tools |-> registered, names |-> <<>>,
            handed |-> compiledEntries.handed]
    ELSE
      ServerTool(registered,
                 ToolName(options.toolPrefix, "query_" \o endpoint.path),
                 EndpointHandler(endpoint, compiledEntries.entries))
        @@ [handed |-> compiledEntries.handed]

AddEndpointSwallowDuplicate(registered, options, endpoint) ==
  LET compiledEntries == parameterEntries(endpoint.params, endpoint.path) IN
  IF ~compiledEntries.ok
    THEN [ok |-> FALSE, tools |-> registered, names |-> <<>>,
          handed |-> compiledEntries.handed, error |-> compiledEntries.error]
    ELSE IF ("query_" \o endpoint.path) \in options.disableTools
      THEN [ok |-> TRUE, tools |-> registered, names |-> <<>>,
            handed |-> compiledEntries.handed]
    ELSE
      LET added == ServerTool(registered,
                              ToolName(options.toolPrefix, "query_" \o endpoint.path),
                              EndpointHandler(endpoint, compiledEntries.entries))
      IN [ok |-> TRUE, tools |-> added.tools, names |-> added.names,
          handed |-> compiledEntries.handed]

AddEndpointSkipFailed(registered, options, endpoint) ==
  LET compiledEntries == parameterEntries(endpoint.params, endpoint.path) IN
  IF ~compiledEntries.ok
    THEN [ok |-> TRUE, tools |-> registered, names |-> <<>>,
          handed |-> compiledEntries.handed]
    ELSE IF ("query_" \o endpoint.path) \in options.disableTools
      THEN [ok |-> TRUE, tools |-> registered, names |-> <<>>,
            handed |-> compiledEntries.handed]
    ELSE
      ServerTool(registered,
                 ToolName(options.toolPrefix, "query_" \o endpoint.path),
                 EndpointHandler(endpoint, compiledEntries.entries))
        @@ [handed |-> compiledEntries.handed]

AddEndpointListFirst(registered, options, endpoint) ==
  LET compiledEntries == parameterEntries(endpoint.params, endpoint.path) IN
  IF ("query_" \o endpoint.path) \in options.disableTools
    THEN [ok |-> TRUE, tools |-> registered, names |-> <<>>, handed |-> <<>>]
    ELSE IF ~compiledEntries.ok
      THEN [ok |-> FALSE, tools |-> registered, names |-> <<>>,
            handed |-> compiledEntries.handed, error |-> compiledEntries.error]
    ELSE
      ServerTool(registered,
                 ToolName(options.toolPrefix, "query_" \o endpoint.path),
                 EndpointHandler(endpoint, compiledEntries.entries))
        @@ [handed |-> compiledEntries.handed]

AddEndpoint(registered, options, endpoint) ==
  LET compiledEntries == parameterEntries(endpoint.params, endpoint.path) IN
  IF ~compiledEntries.ok
    THEN [ok |-> FALSE, tools |-> registered, names |-> <<>>,
          handed |-> compiledEntries.handed, error |-> compiledEntries.error]
    ELSE IF ("query_" \o endpoint.path) \in options.disableTools
      THEN [ok |-> TRUE, tools |-> registered, names |-> <<>>,
            handed |-> compiledEntries.handed]
    ELSE
      ServerTool(registered,
                 ToolName(options.toolPrefix, "query_" \o endpoint.path),
                 EndpointHandler(endpoint, compiledEntries.entries))
        @@ [handed |-> compiledEntries.handed]

\* the dynamicEndpointTools branch: system_get_endpoints, then call_endpoint
RegisterDynamicHonouringList(registered, options) ==
  LET first == ServerTool(registered,
                          ToolName(options.toolPrefix, "system_get_endpoints"),
                          [kind |-> "generic", facade |-> "getEndpoints"])
  IN
  IF ~first.ok \/ "call_endpoint" \in options.disableTools THEN first
  ELSE [ServerTool(first.tools, ToolName(options.toolPrefix, "call_endpoint"),
                   [kind |-> "generic", facade |-> "executeRequest"])
          EXCEPT !.names = first.names \o @]

RegisterDynamic(registered, options) ==
  LET first == ServerTool(registered,
                          ToolName(options.toolPrefix, "system_get_endpoints"),
                          [kind |-> "generic", facade |-> "getEndpoints"])
  IN
  IF ~first.ok THEN first
  ELSE [ServerTool(first.tools, ToolName(options.toolPrefix, "call_endpoint"),
                   [kind |-> "generic", facade |-> "executeRequest"])
          EXCEPT !.names = first.names \o @]

(***************************************************************************)
(* Configurations                                                          *)
(***************************************************************************)
DisableCandidates ==
  BuiltinNames \cup {"query_a", "p_query_a", "query_c", "query_d", "call_endpoint"}

DisableLists == {D \in SUBSET DisableCandidates : Cardinality(D) <= MaxDisabled}

\* MCPOptions; an unset toolPrefix or port is the empty string (both are falsy)
Options ==
  [toolPrefix : {"", "p"}, dynamicEndpointTools : BOOLEAN, testMode : BOOLEAN,
   disableTools : DisableLists, port : {"", "3000"}]

SessionIds == {"s" \o ToString(i) : i \in 1..MaxSessions}

(***************************************************************************)
(* startMcpServer                                                          *)
(***************************************************************************)
NoPost == [status |-> 0]

NoInvocations == EmptyBag

NoDone == [name |-> ""]

NoParse == [stage |-> "none"]

InitStartup ==
  /\ cfg \in Options
  /\ engineEndpoints \in (IF cfg.testMode THEN {TestEndpoints} ELSE Snapshots)
  /\ pc = "builtins"
  /\ builtinIdx = 1
  /\ snapshot = <<>>
  /\ epIdx = 1
  /\ tools = NoTools
  /\ regLog = <<>>
  /\ compiled = <<>>
  /\ startError = NoError
  /\ getEndpointsCalls = 0
  /\ transports = NoTools
  /\ sessions = [sid \in SessionIds |-> "unopened"]
  /\ lastPost = NoPost
  /\ calls = <<>>
  /\ serverTransport = "none"
  /\ inflight = NoInvocations
  /\ lastDone = NoDone
  /\ lastParse = NoParse

Reject(error) ==
  /\ pc' = "rejected"
  /\ startError' = error

\* lines 165-299: the next built-in block
RegisterBuiltinStep ==
  /\ pc = "builtins"
  /\ builtinIdx <= Len(BuiltinTools)
  /\ LET r == RegisterBuiltin(tools, cfg, builtinIdx) IN
     /\ tools' = r.tools
     /\ regLog' = regLog \o r.names
     /\ IF r.ok
          THEN /\ builtinIdx' = builtinIdx + 1
               /\ pc' = IF builtinIdx = Len(BuiltinTools) THEN "branch" ELSE pc
               /\ UNCHANGED startError
          ELSE /\ Reject(r.error)
               /\ UNCHANGED builtinIdx
  /\ UNCHANGED <<cfg, engineEndpoints, snapshot, epIdx, compiled,
                 getEndpointsCalls, calls>>
  /\ UNCHANGED httpVars
  /\ UNCHANGED <<serveVars, lastParse>>

\* lines 301-348
RegisterDynamicTools ==
  /\ pc = "branch"
  /\ cfg.dynamicEndpointTools
  /\ LET r == RegisterDynamic(tools, cfg) IN
     /\ tools' = r.tools
     /\ regLog' = regLog \o r.names
     /\ IF r.ok
          THEN /\ pc' = "expose"
               /\ UNCHANGED startError
          ELSE Reject(r.error)
  /\ UNCHANGED <<cfg, engineEndpoints, builtinIdx, snapshot, epIdx, compiled,
                 getEndpointsCalls, calls>>
  /\ UNCHANGED httpVars
  /\ UNCHANGED <<serveVars, lastParse>>

\* line 351: engine.getEndpoints() is called and awaited
GetEndpointsCall ==
  /\ pc = "branch"
  /\ ~cfg.dynamicEndpointTools
  /\ pc' = "fetching"
  /\ getEndpointsCalls' = getEndpointsCalls + 1
  /\ UNCHANGED <<cfg, engineEndpoints, builtinIdx, snapshot, epIdx, tools, regLog,
                 compiled, startError, calls>>
  /\ UNCHANGED httpVars
  /\ UNCHANGED <<serveVars, lastParse>>

\* the engine answers with its current metadata
GetEndpointsResolve ==
  /\ pc = "fetching"
  /\ snapshot' = engineEndpoints
  /\ epIdx' = 1
  /\ pc' = "addEndpoints"
  /\ UNCHANGED <<cfg, engineEndpoints, builtinIdx, tools, regLog, compiled,
                 startError, getEndpointsCalls, calls>>
  /\ UNCHANGED httpVars
  /\ UNCHANGED <<serveVars, lastParse>>

\* the request fails: handleError throws and startMcpServer rejects
GetEndpointsReject ==
  /\ pc = "fetching"
  /\ ~cfg.testMode
  /\ Reject([name |-> "EngineCallError"])
  /\ UNCHANGED <<cfg, engineEndpoints, builtinIdx, snapshot, epIdx, tools, regLog,
                 compiled, getEndpointsCalls, calls>>
  /\ UNCHANGED httpVars
  /\ UNCHANGED <<serveVars, lastParse>>

\* lines 83-125: one iteration of the loop of addEndpoints
AddEndpointStep ==
  /\ pc = "addEndpoints"
  /\ epIdx <= Len(snapshot)
  /\ LET r == AddEndpoint(tools, cfg, snapshot[epIdx]) IN
     /\ compiled' = compiled \o r.handed
     /\ tools' = r.tools
     /\ regLog' = regLog \o r.names
     /\ IF r.ok
          THEN /\ epIdx' = epIdx + 1
               /\ UNCHANGED <<pc, startError>>
          ELSE /\ Reject(r.error)
               /\ UNCHANGED epIdx
  /\ UNCHANGED <<cfg, engineEndpoints, builtinIdx, snapshot, getEndpointsCalls,
                 calls>>
  /\ UNCHANGED httpVars
  /\ UNCHANGED <<serveVars, lastParse>>

\* the loop is over and addEndpoints returns
AddEndpointsReturn ==
  /\ pc = "addEndpoints"
  /\ epIdx > Len(snapshot)
  /\ pc' = "expose"
  /\ UNCHANGED <<cfg, engineEndpoints, builtinIdx, snapshot, epIdx, tools, regLog,
                 compiled, startError, getEndpointsCalls, calls>>
  /\ UNCHANGED httpVars
  /\ UNCHANGED <<serveVars, lastParse>>

\* lines 361-395: the express app is set up and listens
ListenBeforeEndpoints ==
  /\ pc \in {"expose", "fetching"}
  /\ cfg.port # ""
  /\ pc' = "listening"
  /\ UNCHANGED <<cfg, engineEndpoints, builtinIdx, snapshot, epIdx, tools, regLog,
                 compiled, startError, getEndpointsCalls, calls>>
  /\ UNCHANGED httpVars
  /\ UNCHANGED <<serveVars, lastParse>>

Listen ==
  /\ pc = "expose"
  /\ cfg.port # ""
  /\ pc' = "listening"
  /\ UNCHANGED <<cfg, engineEndpoints, builtinIdx, snapshot, epIdx, tools, regLog,
                 compiled, startError, getEndpointsCalls, calls>>
  /\ UNCHANGED httpVars
  /\ UNCHANGED <<serveVars, lastParse>>

\* lines 396-399: the stdio transport is connected; Protocol.connect of the SDK
\* stores the transport in the server's one _transport field
ConnectStdio ==
  /\ pc = "expose"
  /\ cfg.port = ""
  /\ pc' = "stdio"
  /\ serverTransport' = "stdio"
  /\ UNCHANGED <<cfg, engineEndpoints, builtinIdx, snapshot, epIdx, tools, regLog,
                 compiled, startError, getEndpointsCalls, calls>>
  /\ UNCHANGED httpVars
  /\ UNCHANGED <<inflight, lastDone, lastParse>>

NextStartup ==
  \/ RegisterBuiltinStep
  \/ RegisterDynamicTools
  \/ GetEndpointsCall
  \/ GetEndpointsResolve
  \/ GetEndpointsReject
  \/ AddEndpointStep
  \/ AddEndpointsReturn
  \/ Listen
  \/ ConnectStdio

SpecStartup == InitStartup /\ [][NextStartup]_vars

(***************************************************************************)
(* Streaming-HTTP mode: GET /sse and POST /messages                        *)
(***************************************************************************)
\* property names every object literal inherits from Object.prototype
ObjectPrototypeKeys == {"constructor", "toString", "hasOwnProperty", "__proto__"}

\* transports[sessionId] on `const transports = {}`
GetProperty(object, key) ==
  IF key \in DOMAIN object THEN object[key]
  ELSE IF key \in ObjectPrototypeKeys THEN [inherited |-> key]
  ELSE undefined

\* delete transports[sessionId]
DeleteEveryProperty(object, key) ==
  [k \in {} |-> object[k]]

DeletePropertyNoOp(object, key) == object

DeleteProperty(object, key) ==
  [k \in DOMAIN object \ {key} |-> object[k]]

\* req.query["sessionId"]: absent, repeated (an array), or one string
QueryValues ==
  {undefined, [t |-> "object"]}
    \cup {JsStr(s) : s \in SessionIds \cup {"unknown", "constructor"}}

\* the session id the next SSEServerTransport generates: one never used before
FreshSessionId(sid) ==
  \E i \in 1..MaxSessions :
    /\ sid = "s" \o ToString(i)
    /\ sessions[sid] = "unopened"
    /\ \A j \in 1..(i - 1) : sessions["s" \o ToString(j)] # "unopened"

\* app.get("/sse"): a transport with a fresh session id is stored and connected
\* to the server; Protocol.connect of the SDK overwrites the server's _transport
SseOpenRegistering(sid) ==
  /\ pc = "listening"
  /\ FreshSessionId(sid)
  /\ transports' = transports @@ (sid :> [sessionId |-> sid])
  /\ sessions' = [sessions EXCEPT ![sid] = "open"]
  /\ serverTransport' = sid
  /\ lastPost' = NoPost
  /\ lastDone' = NoDone
  /\ tools' = IF engineEndpoints = <<>> THEN tools
              ELSE AddEndpoint(tools, cfg, engineEndpoints[1]).tools
  /\ UNCHANGED <<cfg, engineEndpoints, calls, inflight, lastParse>>
  /\ UNCHANGED <<pc, builtinIdx, snapshot, epIdx, regLog, compiled, startError,
                 getEndpointsCalls>>

SseOpen(sid) ==
  /\ pc = "listening"
  /\ FreshSessionId(sid)
  /\ transports' = transports @@ (sid :> [sessionId |-> sid])
  /\ sessions' = [sessions EXCEPT ![sid] = "open"]
  /\ serverTransport' = sid
  /\ lastPost' = NoPost
  /\ lastDone' = NoDone
  /\ UNCHANGED <<cfg, engineEndpoints, calls, inflight, lastParse>>
  /\ UNCHANGED startupVars

\* app.get("/sse") taken in two steps, up to its await and after it. The part
\* before the await stores the transport under its session id, registers the
\* close listener and calls server.connect, which sets the server's _transport
\* and starts the transport before it yields
SseAcceptInsertingLater(sid) ==
  /\ pc = "listening"
  /\ FreshSessionId(sid)
  /\ sessions' = [sessions EXCEPT ![sid] = "connecting"]
  /\ serverTransport' = sid
  /\ lastPost' = NoPost
  /\ lastDone' = NoDone
  /\ UNCHANGED <<cfg, engineEndpoints, transports, calls, inflight, lastParse>>
  /\ UNCHANGED startupVars

SseAcceptUnderFirstKey(sid) ==
  /\ pc = "listening"
  /\ FreshSessionId(sid)
  /\ transports' = ("s1" :> [sessionId |-> sid]) @@ transports
  /\ sessions' = [sessions EXCEPT ![sid] = "connecting"]
  /\ serverTransport' = sid
  /\ lastPost' = NoPost
  /\ lastDone' = NoDone
  /\ UNCHANGED <<cfg, engineEndpoints, calls, inflight, lastParse>>
  /\ UNCHANGED startupVars

SseAccept(sid) ==
  /\ pc = "listening"
  /\ FreshSessionId(sid)
  /\ transports' = transports @@ (sid :> [sessionId |-> sid])
  /\ sessions' = [sessions EXCEPT ![sid] = "connecting"]
  /\ serverTransport' = sid
  /\ lastPost' = NoPost
  /\ lastDone' = NoDone
  /\ UNCHANGED <<cfg, engineEndpoints, calls, inflight, lastParse>>
  /\ UNCHANGED startupVars

\* the promise of server.connect resolves and the handler returns; nothing is
\* written after the await. A connection closed in between stays closed
SseConnected(sid) ==
  /\ sessions[sid] = "connecting"
  /\ sessions' = [sessions EXCEPT ![sid] = "open"]
  /\ lastPost' = NoPost
  /\ lastDone' = NoDone
  /\ UNCHANGED <<cfg, engineEndpoints, transports, calls, serverTransport,
                 inflight, lastParse>>
  /\ UNCHANGED startupVars

\* res.on("close"): the entry of the session is deleted; the listener the
\* transport added in start() then calls onclose, which Protocol.connect set to
\* the server's _onclose: the server's _transport becomes undefined
SseClose(sid) ==
  /\ sessions[sid] \in {"connecting", "open"}
  /\ transports' = DeleteProperty(transports, sid)
  /\ sessions' = [sessions EXCEPT ![sid] = "closed"]
  /\ serverTransport' = "none"
  /\ lastPost' = NoPost
  /\ lastDone' = NoDone
  /\ UNCHANGED <<cfg, engineEndpoints, calls, inflight, lastParse>>
  /\ UNCHANGED startupVars

\* app.post("/messages"): the response, and the transport whose
\* handlePostMessage ran ("" when none did)
PostMessages(registry, sessionId) ==
  IF sessionId.t # "string"
    THEN [status |-> 400, handledBy |-> ""]
    ELSE
      LET transport == GetProperty(registry, sessionId.s) IN
      IF transport = undefined
        THEN [status |-> 400, handledBy |-> ""]
        ELSE IF "sessionId" \in DOMAIN transport
          THEN [status |-> 202, handledBy |-> transport.sessionId]
        \* transport.handlePostMessage is not a function: the TypeError rejects
        \* the handler's promise and express answers 500
        ELSE [status |-> 500, handledBy |-> ""]

PostMessage(sessionId) ==
  /\ pc = "listening"
  /\ LET response == PostMessages(transports, sessionId) IN
     lastPost' = [sessionId |-> sessionId,
                  status |-> response.status,
                  handledBy |-> response.handledBy,
                  registryKeys |-> DOMAIN transports]
  /\ lastDone' = NoDone
  /\ UNCHANGED <<cfg, engineEndpoints, transports, sessions, calls,
                 serverTransport, inflight, lastParse>>
  /\ UNCHANGED startupVars

(***************************************************************************)
(* The facade's calls to the engine and their failures                     *)
(***************************************************************************)
null == [t |-> "null"]

JsObject(v) == [t |-> "object", v |-> v]

\* a ?? b
Nullish(a, b) == IF a \in {undefined, null} THEN b ELSE a

\* object?.field
OptionalChain(object, field) ==
  IF object \in {undefined, null} THEN undefined ELSE object[field]

\* the HTTP method and URL of each operation of the generated client
OperationRequest ==
  [getEndpoints |-> [method |-> "get", url |-> "/endpoints"],
   getStatus |-> [method |-> "get", url |-> "/status"],
   getTargets |-> [method |-> "get", url |-> "/targets"],
   getTargetDbStatus |-> [method |-> "get", url |-> "/targets/{targetSlug}/db-status"],
   getSchema |-> [method |-> "get", url |-> "/targets/{targetSlug}/schema"],
   executeReadonlyQuery |->
     [method |-> "post", url |-> "/targets/{targetSlug}/readonly-query"],
   executeReadWriteQuery |->
     [method |-> "post", url |-> "/targets/{targetSlug}/read-write-query"],
   executeEndpointOnGet |-> [method |-> "get", url |-> "/endpoints/{endpointPath}"],
   executeEndpointOnPost |-> [method |-> "post", url |-> "/endpoints/{endpointPath}"]]

\* createEngineClient: the operations of the generated client one facade call
\* issues, in order
EngineClient(call) ==
  IF call.op = "executeRequest" THEN executeRequest(call.request)
  ELSE << [op |-> call.op] >>

\* what the engine, or the network on the way to it, does with one request
EngineReplies ==
  { [mode |-> "ok", data |-> JsObject("rows")],
    [mode |-> "http", status |-> 404, headers |-> "h404",
     body |-> JsObject("not found")],
    [mode |-> "http", status |-> 502, headers |-> "h502",
     body |-> JsStr("Bad Gateway")],
    [mode |-> "dns"],
    [mode |-> "connection"],
    [mode |-> "native"] }

\* the promise of the generated client: fulfilled with the axios response on
\* 2xx, rejected with an AxiosError on an HTTP failure (with response) and on a
\* network failure (without), rejected with another error otherwise
AxiosSettle(request, reply) ==
  LET config == [method |-> JsStr(OperationRequest[request.op].method),
                 url |-> JsStr(OperationRequest[request.op].url)]
  IN
  CASE reply.mode = "ok" -> [ok |-> TRUE, res |-> [data |-> reply.data]]
    [] reply.mode = "http" ->
         [ok |-> FALSE,
          error |-> [class |-> "AxiosError", code |-> "ERR_BAD_RESPONSE",
                     config |-> config,
                     response |-> [status |-> JsNum(reply.status),
                                   headers |-> JsObject(reply.headers),
                                   data |-> reply.body]]]
    [] reply.mode = "dns" ->
         [ok |-> FALSE,
          error |-> [class |-> "AxiosError", code |-> "ENOTFOUND",
                     config |-> config, response |-> undefined]]
    [] reply.mode = "connection" ->
         [ok |-> FALSE,
          error |-> [class |-> "AxiosError", code |-> "ECONNREFUSED",
                     config |-> config, response |-> undefined]]
    [] OTHER -> [ok |-> FALSE, error |-> [class |-> "RequiredError"]]

EngineCallError(method, url, status, headers, error) ==
  [class |-> "EngineCallError", name |-> "EngineCallError",
   message |-> "Error calling " \o String(method) \o " " \o String(url),
   status |-> status, headers |-> headers, error |-> error]

\* handleError: the error it throws
handleErrorKeepingBody(error) ==
  IF error.class = "AxiosError"
    THEN EngineCallError(Nullish(OptionalChain(error.config, "method"),
                                 JsStr("unknown")),
                         Nullish(OptionalChain(error.config, "url"),
                                 JsStr("unknown")),
                         OptionalChain(error.response, "status"),
                         OptionalChain(error.response, "headers"),
                         OptionalChain(error.response, "data"))
    ELSE error

handleError(error) ==
  IF error.class = "AxiosError"
    THEN EngineCallError(Nullish(OptionalChain(error.config, "method"),
                                 JsStr("unknown")),
                         Nullish(OptionalChain(error.config, "url"),
                                 JsStr("unknown")),
                         OptionalChain(error.response, "status"),
                         OptionalChain(error.response, "headers"),
                         Nullish(OptionalChain(error.response, "data"),
                                 JsObject("{}")))
    ELSE error

\* base.op(...).then((res) => res.data).catch(handleError)
FacadeSettleSwallowing(request, reply) ==
  LET settled == AxiosSettle(request, reply) IN
  IF settled.ok THEN [ok |-> TRUE, value |-> settled.res.data]
  ELSE [ok |-> TRUE, value |-> JsObject("{}")]

FacadeSettle(request, reply) ==
  LET settled == AxiosSettle(request, reply) IN
  IF settled.ok THEN [ok |-> TRUE, value |-> settled.res.data]
  ELSE [ok |-> FALSE, error |-> handleError(settled.error)]

(***************************************************************************)
(* Tool calls                                                              *)
(***************************************************************************)
NoArguments == [k \in {} |-> undefined]

\* the facade calls a tool handler makes with the arguments of a call, in order
ToolHandlerRefetching(handler, arguments) ==
  CASE handler.kind = "builtin" /\ handler.facade \in {"getTargets", "getStatus"} ->
         << [op |-> handler.facade] >>
    [] handler.kind = "builtin" /\ handler.facade \in {"getTargetDbStatus", "getSchema"} ->
         << [op |-> handler.facade, target |-> arguments.target] >>
    [] handler.kind = "builtin" ->
         << [op |-> handler.facade, target |-> arguments.target,
             query |-> arguments.query] >>
    [] handler.kind = "generic" /\ handler.facade = "getEndpoints" ->
         << [op |-> "getEndpoints"] >>
    [] handler.kind = "generic" ->
         << [op |-> "getEndpoints"],
            [op |-> "executeRequest",
             request |-> [path |-> arguments.path,
                          requestMethod |-> arguments.requestMethod,
                          parameters |-> arguments.parameters]] >>
    [] OTHER ->
         << [op |-> "executeRequest",
             request |-> [path |-> handler.path,
                          requestMethod |-> handler.requestMethod,
                          parameters |-> arguments]] >>

ToolHandler(handler, arguments) ==
  CASE handler.kind = "builtin" /\ handler.facade \in {"getTargets", "getStatus"} ->
         << [op |-> handler.facade] >>
    [] handler.kind = "builtin" /\ handler.facade \in {"getTargetDbStatus", "getSchema"} ->
         << [op |-> handler.facade, target |-> arguments.target] >>
    [] handler.kind = "builtin" ->
         << [op |-> handler.facade, target |-> arguments.target,
             query |-> arguments.query] >>
    [] handler.kind = "generic" /\ handler.facade = "getEndpoints" ->
         << [op |-> "getEndpoints"] >>
    [] handler.kind = "generic" ->
         << [op |-> "executeRequest",
             request |-> [path |-> arguments.path,
                          requestMethod |-> arguments.requestMethod,
                          parameters |-> arguments.parameters]] >>
    [] OTHER ->
         << [op |-> "executeRequest",
             request |-> [path |-> handler.path,
                          requestMethod |-> handler.requestMethod,
                          parameters |-> arguments]] >>

\* testEngineClient: what each method resolves with
testEngineClientEchoingParameters(call, endpoints) ==
  CASE call.op = "getEndpoints" -> [data |-> endpoints]
    [] call.op = "getTargets" -> [data |-> "targets"]
    [] call.op = "getStatus" -> [ok |-> TRUE]
    [] call.op = "getTargetDbStatus" -> [ok |-> call.target # "test-db-down"]
    [] call.op = "getSchema" -> [target |-> call.target, schema |-> "columns"]
    [] call.op \in {"executeReadonlyQuery", "executeReadWriteQuery"} ->
         [target |-> call.target, query |-> call.query]
    [] OTHER -> [args |-> call.request.parameters]

testEngineClientAllUp(call, endpoints) ==
  CASE call.op = "getEndpoints" -> [data |-> endpoints]
    [] call.op = "getTargets" -> [data |-> "targets"]
    [] call.op = "getStatus" -> [ok |-> TRUE]
    [] call.op = "getTargetDbStatus" -> [ok |-> TRUE]
    [] call.op = "getSchema" -> [target |-> call.target, schema |-> "columns"]
    [] call.op \in {"executeReadonlyQuery", "executeReadWriteQuery"} ->
         [target |-> call.target, query |-> call.query]
    [] OTHER -> [args |-> call.request]

testEngineClient(call, endpoints) ==
  CASE call.op = "getEndpoints" -> [data |-> endpoints]
    [] call.op = "getTargets" -> [data |-> "targets"]
    [] call.op = "getStatus" -> [ok |-> TRUE]
    [] call.op = "getTargetDbStatus" -> [ok |-> call.target # "test-db-down"]
    [] call.op = "getSchema" -> [target |-> call.target, schema |-> "columns"]
    [] call.op \in {"executeReadonlyQuery", "executeReadWriteQuery"} ->
         [target |-> call.target, query |-> call.query]
    [] OTHER -> [args |-> call.request]

\* the value the handler returns: one text block holding JSON.stringify of the
\* result (of endpoints.data for system_get_endpoints)
ToolResult(handler, result) ==
  [content |->
     << [type |-> "text", mimeType |-> "application/json",
         text |-> [stringified |->
                     IF handler.kind = "generic" /\ handler.facade = "getEndpoints"
                       THEN result.data ELSE result]] >>]

\* tools/call requests of a client: the unprefixed tool name and the arguments
ToolCallInputs ==
  { [base |-> "system_get_database_status",
     arguments |-> [target |-> "test-db-down"]],
    [base |-> "system_get_endpoints", arguments |-> NoArguments],
    [base |-> "call_endpoint",
     arguments |-> [path |-> "a", requestMethod |-> "GET",
                    parameters |-> [k1 |-> JsNum(42)]]],
    [base |-> "query_b", arguments |-> [x |-> JsStr("v")]],
    [base |-> "query_test", arguments |-> NoArguments] }

\* the engine's answer to a request: getEndpoints is answered with the
\* metadata the engine serves at that moment
EngineAnswer(request, reply, endpoints) ==
  IF reply.mode = "ok" /\ request.op = "getEndpoints"
    THEN [mode |-> "ok", data |-> [data |-> endpoints]]
    ELSE reply

\* z.object(shape).safeParse(arguments), run by the connected server on the
\* arguments of a tools/call before the handler: every declared key is parsed
\* by its validator (an omitted key as undefined, which an .optional()
\* validator accepts), and the keys that are not declared are stripped
safeParseArgumentsPassthrough(inputSchema, arguments) ==
  [success |->
     \A i \in DOMAIN inputSchema :
       LET value == IF inputSchema[i].name \in DOMAIN arguments
                      THEN arguments[inputSchema[i].name] ELSE undefined
       IN
       \/ inputSchema[i].optional /\ value = undefined
       \/ safeParse(inputSchema[i].validator, value),
   data |-> arguments]

safeParseArguments(inputSchema, arguments) ==
  LET names == {inputSchema[i].name : i \in DOMAIN inputSchema} IN
  [success |->
     \A i \in DOMAIN inputSchema :
       LET value == IF inputSchema[i].name \in DOMAIN arguments
                      THEN arguments[inputSchema[i].name] ELSE undefined
       IN
       \/ inputSchema[i].optional /\ value = undefined
       \/ safeParse(inputSchema[i].validator, value),
   data |-> [k \in DOMAIN arguments \cap names |-> arguments[k]]]

\* the invocation has settled: the server sends the response on its _transport
Settle(invocation, reply, outcome) ==
  lastDone' = [name |-> invocation.name, session |-> invocation.session,
               arguments |-> invocation.arguments,
               issued |-> invocation.issued, requests |-> invocation.requests,
               reply |-> reply, outcome |-> outcome, sentOn |-> serverTransport]

\* a tools/call request reaches the server from `session`: the handler of the
\* tool runs up to its await
CallTool(name, arguments, session) ==
  LET handler == tools[name]
      parsed == IF "inputSchema" \in DOMAIN handler
                  THEN safeParseArguments(handler.inputSchema, arguments)
                  ELSE [success |-> TRUE, data |-> arguments]
      facade == ToolHandler(handler, parsed.data)
  IN
  IF ~parsed.success
    \* McpError InvalidParams: the handler is not run
    THEN /\ Settle([name |-> name, session |-> session, arguments |-> arguments,
                    issued |-> <<>>, requests |-> <<>>],
                   [mode |-> "invalid"],
                   [settled |-> "rejected",
                    error |-> [class |-> "McpError", code |-> "InvalidParams"]])
         /\ UNCHANGED inflight
  ELSE IF cfg.testMode
    \* testEngineClient resolves at once: the handler settles in the same turn
    THEN /\ Settle([name |-> name, session |-> session, arguments |-> arguments,
                    issued |-> facade, requests |-> <<>>],
                   [mode |-> "test"],
                   [settled |-> "fulfilled",
                    value |-> ToolResult(handler,
                                testEngineClient(facade[Len(facade)],
                                                 TestEndpoints))])
         /\ UNCHANGED inflight
    ELSE /\ BagCardinality(inflight) < MaxInflight
         /\ inflight' = inflight (+)
              SetToBag({[name |-> name, session |-> session,
                         arguments |-> arguments,
                         issued |-> <<Head(facade)>>,
                         pending |-> Tail(facade),
                         requests |-> EngineClient(Head(facade))]})
         /\ lastDone' = NoDone

\* app.post("/messages") with a tools/call request as body
PostToolCall(sessionId, input) ==
  /\ pc = "listening"
  /\ ToolName(cfg.toolPrefix, input.base) \in DOMAIN tools
  /\ LET response == PostMessages(transports, sessionId) IN
     /\ lastPost' = [sessionId |-> sessionId,
                     status |-> response.status,
                     handledBy |-> response.handledBy,
                     registryKeys |-> DOMAIN transports]
     /\ IF response.status = 202
          THEN CallTool(ToolName(cfg.toolPrefix, input.base), input.arguments,
                        response.handledBy)
          ELSE /\ lastDone' = NoDone
               /\ UNCHANGED inflight
  /\ UNCHANGED <<cfg, engineEndpoints, transports, sessions, calls,
                 serverTransport, lastParse>>
  /\ UNCHANGED startupVars

\* a tools/call request read from stdin
StdioToolCall(input) ==
  /\ pc = "stdio"
  /\ ToolName(cfg.toolPrefix, input.base) \in DOMAIN tools
  /\ CallTool(ToolName(cfg.toolPrefix, input.base), input.arguments, "stdio")
  /\ UNCHANGED <<cfg, engineEndpoints, calls, serverTransport, lastParse>>
  /\ UNCHANGED startupVars
  /\ UNCHANGED httpVars

\* the awaited facade call of an invocation settles and its handler resumes
EngineRespondPoisoning(invocation, reply) ==
  /\ BagIn(invocation, inflight)
  /\ LET request == invocation.requests[Len(invocation.requests)]
         settled == FacadeSettle(request,
                                 EngineAnswer(request, reply, engineEndpoints))
     IN
     /\ inflight' = IF settled.ok THEN inflight (-) SetToBag({invocation})
                                  ELSE EmptyBag
     /\ Settle(invocation, reply,
               IF settled.ok
                 THEN [settled |-> "fulfilled",
                       value |-> ToolResult(tools[invocation.name], settled.value)]
                 ELSE [settled |-> "rejected", error |-> settled.error])
  /\ lastPost' = NoPost
  /\ UNCHANGED <<cfg, engineEndpoints, calls, serverTransport, lastParse,
                 transports, sessions>>
  /\ UNCHANGED startupVars

EngineRespond(invocation, reply) ==
  /\ BagIn(invocation, inflight)
  /\ LET request == invocation.requests[Len(invocation.requests)]
         settled == FacadeSettle(request,
                                 EngineAnswer(request, reply, engineEndpoints))
     IN
     IF settled.ok /\ invocation.pending # <<>>
       THEN /\ inflight' =
                 (inflight (-) SetToBag({invocation})) (+)
                   SetToBag({[invocation EXCEPT
                                !.issued = Append(@, Head(invocation.pending)),
                                !.pending = Tail(@),
                                !.requests =
                                  @ \o EngineClient(Head(invocation.pending))]})
            /\ lastDone' = NoDone
       ELSE /\ inflight' = inflight (-) SetToBag({invocation})
            /\ Settle(invocation, reply,
                      IF settled.ok
                        THEN [settled |-> "fulfilled",
                              value |-> ToolResult(tools[invocation.name],
                                                   settled.value)]
                        ELSE [settled |-> "rejected", error |-> settled.error])
  /\ lastPost' = NoPost
  /\ UNCHANGED <<cfg, engineEndpoints, calls, serverTransport, lastParse,
                 transports, sessions>>
  /\ UNCHANGED startupVars

\* the engine's operator changes the endpoint metadata
EngineMetadataChange(endpoints) ==
  /\ ~cfg.testMode
  /\ endpoints # engineEndpoints
  /\ engineEndpoints' = endpoints
  /\ lastPost' = NoPost
  /\ lastDone' = NoDone
  /\ UNCHANGED <<cfg, calls, lastParse, transports, sessions, serverTransport,
                 inflight>>
  /\ UNCHANGED startupVars

(***************************************************************************)
(* The server as a whole                                                   *)
(***************************************************************************)
ServeSnapshots == {<<EpA, EpB>>, <<EpA, EpC>>, <<EpB, EpE>>, <<EpD>>}

Init ==
  /\ InitStartup
  /\ cfg.disableTools \subseteq {"query_c"}
  /\ engineEndpoints \in ServeSnapshots \cup {TestEndpoints}

Next ==
  \/ NextStartup
  \/ \E sid \in SessionIds : SseOpen(sid)
  \/ \E sid \in SessionIds : SseClose(sid)
  \/ \E sessionId \in QueryValues : PostMessage(sessionId)

Spec == Init /\ [][Next]_vars

\* the close event of a connection that has been opened is emitted and handled
SpecClose ==
  Init /\ [][Next]_vars /\ \A sid \in SessionIds : WF_vars(SseClose(sid))

\* the server with its clients' tool calls and the engine behind it
ChangedSnapshots == {<<EpA, EpB>>, TestEndpoints}

ServeOptions ==
  { [toolPrefix |-> "p", dynamicEndpointTools |-> FALSE, testMode |-> FALSE,
     disableTools |-> {}, port |-> "3000"],
    [toolPrefix |-> "", dynamicEndpointTools |-> TRUE, testMode |-> FALSE,
     disableTools |-> {}, port |-> ""],
    [toolPrefix |-> "", dynamicEndpointTools |-> FALSE, testMode |-> TRUE,
     disableTools |-> {}, port |-> "3000"],
    [toolPrefix |-> "p", dynamicEndpointTools |-> TRUE, testMode |-> TRUE,
     disableTools |-> {}, port |-> ""] }

InitServe ==
  /\ Init
  /\ cfg \in ServeOptions
  /\ engineEndpoints \in {<<EpA, EpB>>, TestEndpoints}

NextServe ==
  \/ Next
  \/ \E sid \in SessionIds, input \in ToolCallInputs :
       PostToolCall(JsStr(sid), input)
  \/ \E input \in ToolCallInputs : StdioToolCall(input)
  \/ \E invocation \in BagToSet(inflight), reply \in EngineReplies :
       EngineRespond(invocation, reply)
  \/ \E endpoints \in ChangedSnapshots : EngineMetadataChange(endpoints)

SpecServe == InitServe /\ [][NextServe]_vars

\* the HTTP server with the GET /sse handler taken step by step: requests and
\* close events arrive while server.connect is still pending
InitSessions ==
  /\ Init
  /\ cfg \in {options \in ServeOptions : options.port # ""}
  /\ engineEndpoints \in {<<EpA, EpB>>, TestEndpoints}

NextSessions ==
  \/ RegisterBuiltinStep
  \/ GetEndpointsCall
  \/ GetEndpointsResolve
  \/ GetEndpointsReject
  \/ AddEndpointStep
  \/ AddEndpointsReturn
  \/ Listen
  \/ \E sid \in SessionIds : SseAccept(sid)
  \/ \E sid \in SessionIds : SseConnected(sid)
  \/ \E sid \in SessionIds : SseClose(sid)
  \/ \E sessionId \in QueryValues : PostMessage(sessionId)

SpecSessions == InitSessions /\ [][NextSessions]_vars

\* the server in test mode on stdio, under every prefix and disable-list: the
\* mock facade answers at once, the engine is never called
TargetSlugs == {"test-clickhouse", "test-postgres", "test-db-down", "other"}

TestModeInputs ==
  ToolCallInputs
    \cup {[base |-> "system_get_database_status", arguments |-> [target |-> slug]] :
            slug \in TargetSlugs}

InitTestMode ==
  /\ InitStartup
  /\ cfg.testMode
  /\ cfg.port = ""

NextTestMode ==
  \/ RegisterBuiltinStep
  \/ RegisterDynamicTools
  \/ GetEndpointsCall
  \/ GetEndpointsResolve
  \/ AddEndpointStep
  \/ AddEndpointsReturn
  \/ ConnectStdio
  \/ \E input \in TestModeInputs : StdioToolCall(input)

SpecTestMode == InitTestMode /\ [][NextTestMode]_vars

\* the per-endpoint tools called with arguments that omit, supply or violate
\* their parameters, or carry keys that are no parameters
ArgumentInputs ==
  { [base |-> "query_b", arguments |-> a] :
      a \in { NoArguments,
              [x |-> JsStr("v")],
              [x |-> JsStr("v"), y |-> JsNum(1)],
              [x |-> JsStr("v"), y |-> JsBool(TRUE)],
              [x |-> JsNum(1)],
              [y |-> JsStr("v")],
              [x |-> JsStr("v"), path |-> JsStr("f"),
               requestMethod |-> JsStr("GET")] } }
    \cup
  { [base |-> "query_f", arguments |-> a] :
      a \in { NoArguments,
              [u |-> JsStr("v")],
              [n |-> JsNum(1)],
              [n |-> JsStr("v")],
              [u |-> JsNum(1), n |-> JsNum(1)] } }

ArgumentSnapshots == {<<EpB, EpF>>, <<EpB2>>}

InitArguments ==
  /\ cfg = [toolPrefix |-> "", dynamicEndpointTools |-> FALSE, testMode |-> FALSE,
            disableTools |-> {}, port |-> ""]
  /\ engineEndpoints = <<EpB, EpF>>
  /\ pc = "builtins"
  /\ builtinIdx = 1
  /\ snapshot = <<>>
  /\ epIdx = 1
  /\ tools = NoTools
  /\ regLog = <<>>
  /\ compiled = <<>>
  /\ startError = NoError
  /\ getEndpointsCalls = 0
  /\ transports = NoTools
  /\ sessions = [sid \in SessionIds |-> "unopened"]
  /\ lastPost = NoPost
  /\ calls = <<>>
  /\ serverTransport = "none"
  /\ inflight = NoInvocations
  /\ lastDone = NoDone
  /\ lastParse = NoParse

NextArguments ==
  \/ RegisterBuiltinStep
  \/ GetEndpointsCall
  \/ GetEndpointsResolve
  \/ GetEndpointsReject
  \/ AddEndpointStep
  \/ AddEndpointsReturn
  \/ ConnectStdio
  \/ \E input \in ArgumentInputs : StdioToolCall(input)
  \/ \E invocation \in BagToSet(inflight), reply \in EngineReplies :
       EngineRespond(invocation, reply)
  \/ \E endpoints \in ArgumentSnapshots : EngineMetadataChange(endpoints)

SpecArguments == InitArguments /\ [][NextArguments]_vars

(***************************************************************************)
(* The facade alone: executeRequest called directly on createEngineClient  *)
(***************************************************************************)
Methods == {"GET", "get", "POST", "PUT", "DELETE", ""}

JsValues == {JsStr("a"), JsStr("42"), JsNum(42), JsNum(-7), JsBool(TRUE), JsBool(FALSE)}

ParameterKeys == {"k1", "k2"}

ParameterMaps == UNION {[K -> JsValues] : K \in SUBSET ParameterKeys}

RequestArgs ==
  [path : {"a"}, requestMethod : Methods, parameters : ParameterMaps]

InitRequest ==
  /\ InitStartup
  /\ cfg = [toolPrefix |-> "", dynamicEndpointTools |-> TRUE, testMode |-> FALSE,
            disableTools |-> {}, port |-> ""]
  /\ engineEndpoints = <<>>

CallExecuteRequest(args) ==
  /\ Len(calls) < MaxCalls
  /\ calls' = Append(calls, [args |-> args, ops |-> executeRequest(args)])
  /\ UNCHANGED <<cfg, engineEndpoints>>
  /\ UNCHANGED startupVars
  /\ UNCHANGED httpVars
  /\ UNCHANGED <<serveVars, lastParse>>

NextRequest == \E args \in RequestArgs : CallExecuteRequest(args)

SpecRequest == InitRequest /\ [][NextRequest]_vars

\* every method of the facade, called directly, against every way the request
\* can end
FacadeCalls ==
  {[op |-> op] : op \in {"getEndpoints", "getStatus", "getTargets"}}
    \cup {[op |-> op, target |-> target] :
            op \in {"getTargetDbStatus", "getSchema"}, target \in {"db1", "db2"}}
    \cup {[op |-> op, target |-> "db1", query |-> query] :
            op \in {"executeReadonlyQuery", "executeReadWriteQuery"},
            query \in {"select 1", "delete from t"}}
    \cup {[op |-> "executeRequest",
           request |-> [path |-> "a", requestMethod |-> m,
                        parameters |-> [k1 |-> JsNum(42)]]] :
            m \in {"GET", "POST", "get"}}

FacadeReplies ==
  EngineReplies
    \cup { [mode |-> "http", status |-> 500, headers |-> "h500", body |-> null],
           [mode |-> "http", status |-> 401, headers |-> "h401",
            body |-> JsStr("")] }

CallFacade(call, reply) ==
  /\ Len(calls) < MaxCalls
  /\ LET requests == EngineClient(call) IN
     calls' = Append(calls,
                     [call |-> call, requests |-> requests, reply |-> reply,
                      rejection |-> AxiosSettle(requests[Len(requests)], reply),
                      settled |-> FacadeSettle(requests[Len(requests)], reply)])
  /\ UNCHANGED <<cfg, engineEndpoints>>
  /\ UNCHANGED startupVars
  /\ UNCHANGED httpVars
  /\ UNCHANGED <<serveVars, lastParse>>

NextFacade == \E call \in FacadeCalls, reply \in FacadeReplies : CallFacade(call, reply)

SpecFacade == InitRequest /\ [][NextFacade]_vars

(***************************************************************************)
(* The schema compiler alone: a fragment is compiled and the validator is  *)
(* run on a value                                                          *)
(***************************************************************************)
PrimitiveSchemas == {SString, SNumber, SBoolean, SObject, SEnum}

ArrayOf(S) == {[type |-> "array", items |-> items] : items \in S}

OneOf(S, T) == {[oneOf |-> <<a, b>>] : a \in S, b \in T}

\* the supported shapes, alone and nested one and two levels deep
NestedSchemas ==
  PrimitiveSchemas \cup ArrayOf(PrimitiveSchemas)
    \cup OneOf(PrimitiveSchemas, PrimitiveSchemas)

SupportedSchemas ==
  NestedSchemas \cup ArrayOf(NestedSchemas)
    \cup OneOf(NestedSchemas \ PrimitiveSchemas, PrimitiveSchemas)

ItemValues == {JsStr("a"), JsNum(1), JsNum(2), JsBool(TRUE), null}

\* JSON values: the values of the test cases and every array of up to MaxItems
\* item values
ParseValues ==
  {JsStr("a"), JsStr("d"), JsNum(1), JsBool(TRUE), JsBool(FALSE), null,
   JsObject([k \in {} |-> null]), JsObject([a |-> JsNum(1)])}
    \cup {JsArray(items) : items \in SeqsUpTo(ItemValues, MaxItems)}
    \cup {JsArray(<<JsArray(<<JsNum(1)>>)>>),
          JsArray(<<JsArray(<<JsNum(1), JsStr("a")>>)>>)}

InitValidate ==
  /\ cfg = [toolPrefix |-> "", dynamicEndpointTools |-> TRUE, testMode |-> FALSE,
            disableTools |-> {}, port |-> ""]
  /\ engineEndpoints = <<>>
  /\ pc = "builtins"
  /\ builtinIdx = 1
  /\ snapshot = <<>>
  /\ epIdx = 1
  /\ tools = NoTools
  /\ regLog = <<>>
  /\ compiled = <<>>
  /\ startError = NoError
  /\ getEndpointsCalls = 0
  /\ transports = NoTools
  /\ sessions = [sid \in SessionIds |-> "unopened"]
  /\ lastPost = NoPost
  /\ calls = <<>>
  /\ serverTransport = "none"
  /\ inflight = NoInvocations
  /\ lastDone = NoDone
  /\ lastParse \in [stage : {"input"}, jsonSchema : SupportedSchemas,
                     value : ParseValues]

\* const zodSchema = getZodSchemaFromJsonSchema(jsonSchema)
GetZodSchema ==
  /\ lastParse.stage = "input"
  /\ lastParse' = [stage |-> "compiled", jsonSchema |-> lastParse.jsonSchema,
                   value |-> lastParse.value,
                   zodSchema |-> getZodSchemaFromJsonSchema(lastParse.jsonSchema)]
  /\ UNCHANGED <<cfg, engineEndpoints, calls>>
  /\ UNCHANGED startupVars
  /\ UNCHANGED httpVars
  /\ UNCHANGED serveVars

\* zodSchema.safeParse(value).success
SafeParse ==
  /\ lastParse.stage = "compiled"
  /\ lastParse.zodSchema.ok
  /\ lastParse' = [stage |-> "parsed", jsonSchema |-> lastParse.jsonSchema,
                   value |-> lastParse.value,
                   zodSchema |-> lastParse.zodSchema,
                   success |-> safeParse(lastParse.zodSchema.value,
                                         lastParse.value)]
  /\ UNCHANGED <<cfg, engineEndpoints, calls>>
  /\ UNCHANGED startupVars
  /\ UNCHANGED httpVars
  /\ UNCHANGED serveVars

NextValidate == GetZodSchema \/ SafeParse

\* fragments of objects that declare properties: up to two properties, with or
\* without a required list and additionalProperties
PropertySchemas == {SString, SNumber, SEnum, SArray, SObject, SOneOf}

PropertyLists ==
  {<<>>}
    \cup {<<[name |-> "name", schema |-> a]>> : a \in PropertySchemas}
    \cup {<<[name |-> "name", schema |-> a], [name |-> "age", schema |-> b]>> :
            a \in PropertySchemas, b \in PropertySchemas}

RequiredLists == {<<>>, <<"name">>, <<"age">>, <<"name", "age">>, <<"age", "name">>}

ObjectSchemas ==
  LET declared == {[type |-> "object", properties |-> properties] :
                     properties \in PropertyLists}
      listed == declared \cup {o @@ [required |-> required] :
                                 o \in declared, required \in RequiredLists}
  IN listed \cup {o @@ [additionalProperties |-> JsBool(b)] :
                    o \in listed, b \in BOOLEAN}

RoundTripSchemas == SupportedSchemas \cup ObjectSchemas \cup ArrayOf({SComplex})

InitRoundTrip ==
  /\ cfg = [toolPrefix |-> "", dynamicEndpointTools |-> TRUE, testMode |-> FALSE,
            disableTools |-> {}, port |-> ""]
  /\ engineEndpoints = <<>>
  /\ pc = "builtins"
  /\ builtinIdx = 1
  /\ snapshot = <<>>
  /\ epIdx = 1
  /\ tools = NoTools
  /\ regLog = <<>>
  /\ compiled = <<>>
  /\ startError = NoError
  /\ getEndpointsCalls = 0
  /\ transports = NoTools
  /\ sessions = [sid \in SessionIds |-> "unopened"]
  /\ lastPost = NoPost
  /\ calls = <<>>
  /\ serverTransport = "none"
  /\ inflight = NoInvocations
  /\ lastDone = NoDone
  /\ lastParse \in [stage : {"input"}, jsonSchema : RoundTripSchemas,
                     value : {null}]

\* expect(zodToJsonSchema(zodSchema)): the validator is converted back
ZodToJsonSchema ==
  /\ lastParse.stage = "compiled"
  /\ lastParse.zodSchema.ok
  /\ lastParse' = [stage |-> "converted", jsonSchema |-> lastParse.jsonSchema,
                   value |-> lastParse.value,
                   zodSchema |-> lastParse.zodSchema,
                   converted |-> zodToJsonSchema(lastParse.zodSchema.value)]
  /\ UNCHANGED <<cfg, engineEndpoints, calls>>
  /\ UNCHANGED startupVars
  /\ UNCHANGED httpVars
  /\ UNCHANGED serveVars

NextRoundTrip == GetZodSchema \/ ZodToJsonSchema

SpecRoundTrip == InitRoundTrip /\ [][NextRoundTrip]_vars

SpecValidate == InitValidate /\ [][NextValidate]_vars

(***************************************************************************)
(* Claims about the facade                                                 *)
(***************************************************************************)
DigitChar(d) ==
  CASE d = 0 -> "0" [] d = 1 -> "1" [] d = 2 -> "2" [] d = 3 -> "3" [] d = 4 -> "4"
    [] d = 5 -> "5" [] d = 6 -> "6" [] d = 7 -> "7" [] d = 8 -> "8" [] d = 9 -> "9"

RECURSIVE DecimalDigits(_)
DecimalDigits(n) ==
  IF n < 10 THEN DigitChar(n) ELSE DecimalDigits(n \div 10) \o DigitChar(n % 10)

\* the string representation of a JavaScript string, integer or boolean
StringRepresentation(v) ==
  IF v.t = "string" THEN v.s
  ELSE IF v.t = "boolean" THEN (IF v.b THEN "true" ELSE "false")
  ELSE IF v.n < 0 THEN "-" \o DecimalDigits(0 - v.n)
  ELSE DecimalDigits(v.n)

\* C1: with requestMethod "GET" every parameter value sent is the string
\* representation of the supplied value (42 -> "42", true -> "true") under the
\* same keys; with any other method the parameters are sent unmodified
C1_Encoding ==
  \A i \in DOMAIN calls :
    LET args == calls[i].args
        ops == calls[i].ops
    IN
    /\ ops # <<>>
    /\ \A j \in DOMAIN ops :
         IF args.requestMethod = "GET"
           THEN /\ DOMAIN ops[j].parameters = DOMAIN args.parameters
                /\ \A key \in DOMAIN args.parameters :
                     ops[j].parameters[key]
                       = [t |-> "string",
                          s |-> StringRepresentation(args.parameters[key])]
           ELSE ops[j].parameters = args.parameters

C1_Witness ==
  \E i \in DOMAIN calls :
    /\ calls[i].args.requestMethod = "GET"
    /\ calls[i].args.parameters = [k1 |-> JsNum(42), k2 |-> JsBool(TRUE)]
    /\ calls[i].ops[1].parameters = [k1 |-> JsStr("42"), k2 |-> JsStr("true")]

\* C2: a call is sent as the GET operation iff requestMethod is exactly "GET";
\* every other string is sent as the POST operation, and exactly one operation
\* is issued per call
C2_Routing ==
  \A i \in DOMAIN calls :
    /\ Len(calls[i].ops) = 1
    /\ calls[i].ops[1].op \in {"executeEndpointOnGet", "executeEndpointOnPost"}
    /\ calls[i].ops[1].op = "executeEndpointOnGet"
         <=> calls[i].args.requestMethod = "GET"
    /\ calls[i].ops[1].path = calls[i].args.path

C2_Witness ==
  \E i \in DOMAIN calls :
    /\ calls[i].args.requestMethod = "get"
    /\ calls[i].ops[1].op = "executeEndpointOnPost"

(***************************************************************************)
(* startMcpServer as a function of its options and of the engine's answer: *)
(* the tools registered when it settles                                    *)
(***************************************************************************)
\* the six built-in blocks, from block i on
RECURSIVE RegisterBuiltinsFrom(_, _, _)
RegisterBuiltinsFrom(registered, options, i) ==
  IF i > Len(BuiltinTools) THEN [ok |-> TRUE, tools |-> registered]
  ELSE LET r == RegisterBuiltin(registered, options, i) IN
       IF r.ok THEN RegisterBuiltinsFrom(r.tools, options, i + 1)
       ELSE [ok |-> FALSE, tools |-> r.tools]

\* the for-loop of addEndpoints, from endpoint i on
RECURSIVE addEndpoints(_, _, _, _)
addEndpoints(registered, options, endpoints, i) ==
  IF i > Len(endpoints) THEN [ok |-> TRUE, tools |-> registered]
  ELSE LET r == AddEndpoint(registered, options, endpoints[i]) IN
       IF r.ok THEN addEndpoints(r.tools, options, endpoints, i + 1)
       ELSE [ok |-> FALSE, tools |-> r.tools]

\* lines 165-359; `fetched` is what engine.getEndpoints() settles with
startMcpServerTools(options, fetched) ==
  LET builtins == RegisterBuiltinsFrom(NoTools, options, 1) IN
  IF ~builtins.ok THEN builtins.tools
  ELSE IF options.dynamicEndpointTools
    THEN RegisterDynamic(builtins.tools, options).tools
  ELSE IF fetched.ok
    THEN addEndpoints(builtins.tools, options, fetched.data, 1).tools
  ELSE builtins.tools

(***************************************************************************)
(* Claims about startup                                                    *)
(***************************************************************************)
Settled == pc \in {"listening", "stdio", "rejected"}

Started == pc \in {"listening", "stdio"}

\* what engine.getEndpoints() settled with in this run
Fetched ==
  IF startError.name = "EngineCallError" THEN [ok |-> FALSE]
  ELSE [ok |-> TRUE, data |-> snapshot]

Without(registered, name) ==
  [n \in DOMAIN registered \ {name} |-> registered[n]]

\* C3: for every disable-list and every built-in name N, the tools registered
\* by a startup with N in the disable-list are the tools registered without N
\* in the list, minus exactly the tool N
C3_DisableBuiltin ==
  Settled =>
    \A N \in BuiltinNames :
      LET toggled == [cfg EXCEPT !.disableTools =
                        IF N \in @ THEN @ \ {N} ELSE @ \cup {N}]
          other == startMcpServerTools(toggled, Fetched)
          withN == IF N \in cfg.disableTools THEN tools ELSE other
          withoutN == IF N \in cfg.disableTools THEN other ELSE tools
      IN
      /\ ToolName(cfg.toolPrefix, N) \in DOMAIN withoutN
      /\ withN = Without(withoutN, ToolName(cfg.toolPrefix, N))

C3_Witness ==
  /\ Started
  /\ cfg.disableTools = {"system_get_status"}
  /\ cfg.toolPrefix = "p"
  /\ DOMAIN tools = {"p_system_list_databases", "p_system_get_database_status",
                     "p_system_get_database_schema", "p_raw_readonly_query",
                     "p_raw_query", "p_query_a", "p_query_b"}

BuiltinToolNames == {ToolName(cfg.toolPrefix, N) : N \in BuiltinNames}

GenericToolNames ==
  {ToolName(cfg.toolPrefix, "system_get_endpoints"),
   ToolName(cfg.toolPrefix, "call_endpoint")}

\* the endpoint is in the disable-list: the list holds `query_<path>`
Listed(endpoint) == ("query_" \o endpoint.path) \in cfg.disableTools

QueryToolName(endpoint) == ToolName(cfg.toolPrefix, "query_" \o endpoint.path)

NoDuplicates(seq) ==
  \A i, j \in DOMAIN seq : i # j => seq[i] # seq[j]

\* C6: no two registered tools share a name and no name is registered twice;
\* two snapshot endpoints that derive the same tool name make startup fail with
\* an error at the second one, and the first one's tool is not replaced
C6_UniqueNames ==
  /\ NoDuplicates(regLog)
  /\ DOMAIN tools = {regLog[i] : i \in DOMAIN regLog}
  /\ \A i, j \in DOMAIN snapshot :
       (/\ i < j
        /\ ~Listed(snapshot[i])
        /\ QueryToolName(snapshot[i]) = QueryToolName(snapshot[j])
        /\ \A h \in 1..(i - 1) :
             QueryToolName(snapshot[h]) # QueryToolName(snapshot[i]))
       => /\ j >= epIdx
          /\ ~Started /\ pc # "expose"
          /\ j = epIdx =>
               /\ pc \in {"addEndpoints", "rejected"}
               /\ pc = "rejected" =>
                    startError.message
                      = "Tool " \o QueryToolName(snapshot[j])
                          \o " is already registered"
          /\ i < epIdx =>
               tools[QueryToolName(snapshot[i])].requestMethod
                 = snapshot[i].requestMethod

C6_Witness ==
  /\ pc = "rejected"
  /\ snapshot = <<EpA, EpA2>>
  /\ cfg.toolPrefix = ""
  /\ startError.message = "Tool query_a is already registered"
  /\ tools["query_a"].requestMethod = "GET"
  /\ regLog[Len(regLog)] = "query_a"

\* C7: whenever a fragment handed to getZodSchemaFromJsonSchema cannot be turned
\* into a validator (the transformation raises, or evaluating the generated
\* code raises), the call fails with a ZodSchemaConversionError that carries
\* the fragment as sourceSchema
C7_ConversionError ==
  \A c \in DOMAIN compiled :
    ~getZodSchemaFromJsonSchema(compiled[c].schema).ok =>
      /\ pc = "rejected"
      /\ c = Len(compiled)
      /\ startError.name = "ZodSchemaConversionError"
      /\ startError.sourceSchema = compiled[c].schema

\* addEndpoints has taken up endpoint i of the snapshot
Reached(i) == i < epIdx \/ (i = epIdx /\ pc = "rejected")

BuiltFrom(handler, endpoint) ==
  /\ handler.kind = "endpoint"
  /\ handler.path = endpoint.path
  /\ handler.requestMethod = endpoint.requestMethod
  /\ [k \in DOMAIN handler.inputSchema |-> handler.inputSchema[k].name]
       = [k \in DOMAIN endpoint.params |-> endpoint.params[k].name]

NoToolFor(endpoint) ==
  \A n \in DOMAIN tools : ~BuiltFrom(tools[n], endpoint)

NoSchemaMessage(name, path) ==
  "No schema found for parameter " \o name \o " in endpoint " \o path

\* C8 as stated: for every endpoint and every parameter of it without a schema,
\* construction of the endpoint's tool fails with an error naming that
\* parameter and the endpoint path, and no tool is registered for the endpoint
C8_EveryMissingSchemaNamed ==
  \A i \in DOMAIN snapshot :
    Reached(i) =>
      \A k \in DOMAIN snapshot[i].params :
        snapshot[i].params[k].schema = undefined =>
          /\ pc = "rejected"
          /\ i = epIdx
          /\ startError = [name |-> "Error",
                           message |-> NoSchemaMessage(snapshot[i].params[k].name,
                                                       snapshot[i].path)]
          /\ NoToolFor(snapshot[i])

ParamFails(param) ==
  \/ param.schema = undefined
  \/ ~getZodSchemaFromJsonSchema(param.schema).ok

\* C8 amended: for every endpoint addEndpoints takes up that has a parameter
\* without a schema, construction of its tool fails and no tool is registered
\* for it; the error is that of the first parameter, in params order, which has
\* no schema or does not compile, and when that parameter has no schema the
\* error names it and the endpoint path
C8_FirstFailureNamed ==
  \A i \in DOMAIN snapshot :
    (Reached(i) /\ \E k \in DOMAIN snapshot[i].params :
                     snapshot[i].params[k].schema = undefined) =>
      LET params == snapshot[i].params
          first == CHOOSE k \in DOMAIN params :
                     /\ ParamFails(params[k])
                     /\ \A h \in 1..(k - 1) : ~ParamFails(params[h])
      IN
      /\ pc = "rejected"
      /\ i = epIdx
      /\ NoToolFor(snapshot[i])
      /\ IF params[first].schema = undefined
           THEN startError = [name |-> "Error",
                              message |-> NoSchemaMessage(params[first].name,
                                                          snapshot[i].path)]
           ELSE startError = getZodSchemaFromJsonSchema(params[first].schema).error

C8_Witness ==
  /\ pc = "rejected"
  /\ epIdx \in DOMAIN snapshot
  /\ snapshot[epIdx] = EpC
  /\ startError.name = "Error"
  /\ startError.message = "No schema found for parameter x in endpoint c"
  /\ NoToolFor(EpC)

\* the schemas of the endpoint do not all compile
CompileFails(endpoint) == ~parameterEntries(endpoint.params, endpoint.path).ok

\* C9: in static mode, if the parameter schemas of any endpoint of the snapshot
\* fail to compile, startup aborts: startMcpServer rejects when it reaches that
\* endpoint and never gets past it, no transport is ever connected or
\* listening, and no client ever reaches a tool
C9_StartupAborts ==
  \A i \in DOMAIN snapshot :
    CompileFails(snapshot[i]) =>
      /\ pc \in {"addEndpoints", "rejected"}
      /\ epIdx <= i
      /\ (pc = "rejected" /\ epIdx = i) => startError # NoError
      /\ DOMAIN transports = {}
      /\ \A sid \in SessionIds : sessions[sid] = "unopened"
      /\ lastPost = NoPost

C9_Witness ==
  /\ pc = "rejected"
  /\ cfg.port # ""
  /\ cfg.disableTools = {"query_c"}
  /\ snapshot = <<EpA, EpC>>
  /\ epIdx = 2
  /\ QueryToolName(EpA) \in DOMAIN tools

\* C10: a POST to /messages whose sessionId is missing, is not a single string
\* or is not a key of the registry gets HTTP 400 and reaches no transport; a
\* message reaches a transport only when sessionId is a registry key, and then
\* that session's transport
C10_PostRouting ==
  lastPost # NoPost =>
    LET sessionId == lastPost.sessionId
        isKey == sessionId.t = "string" /\ sessionId.s \in lastPost.registryKeys
    IN
    /\ ~isKey => (lastPost.status = 400 /\ lastPost.handledBy = "")
    /\ lastPost.handledBy # "" => (isKey /\ lastPost.handledBy = sessionId.s)

(***************************************************************************)
(* Claims about the session registry                                       *)
(***************************************************************************)
SameEntries(before, after, keys) ==
  \A k \in keys : k \in DOMAIN before /\ k \in DOMAIN after /\ after[k] = before[k]

\* C11: the registry changes only when a session opens, which inserts the
\* entry of the new session id, or closes, which deletes the entry of the
\* closing session id; no other entry changes then, and a step that handles a
\* POSTed message, a tool call or an engine response leaves the registry as it is
C11_RegistryFrame ==
  [][/\ \A sid \in SessionIds :
          /\ (sessions[sid] = "unopened" /\ sessions'[sid] = "open") =>
               /\ sid \notin DOMAIN transports
               /\ DOMAIN transports' = DOMAIN transports \cup {sid}
               /\ transports'[sid].sessionId = sid
               /\ SameEntries(transports, transports', DOMAIN transports)
          /\ (sessions[sid] = "open" /\ sessions'[sid] = "closed") =>
               /\ DOMAIN transports' = DOMAIN transports \ {sid}
               /\ SameEntries(transports, transports', DOMAIN transports \ {sid})
     /\ sessions' = sessions => transports' = transports
     /\ (lastPost' # NoPost \/ lastDone' # NoDone \/ inflight' # inflight) =>
          (transports' = transports /\ sessions' = sessions)
    ]_vars

C11_Witness ==
  /\ sessions["s1"] = "closed"
  /\ DOMAIN transports = {"s2"}
  /\ transports["s2"].sessionId = "s2"
  /\ lastDone # NoDone
  /\ lastDone.session = "s2"
  /\ inflight # EmptyBag

\* C12: once the close event of a session has been handled its id is no
\* registry key, every POST with that id from then on gets HTTP 400 and reaches
\* no transport, and the entry of every opened session is eventually removed
C12_CloseReleases ==
  /\ [](\A sid \in SessionIds :
          sessions[sid] = "closed" => sid \notin DOMAIN transports)
  /\ []((/\ lastPost # NoPost
         /\ lastPost.sessionId.t = "string"
         /\ lastPost.sessionId.s \in SessionIds
         /\ sessions[lastPost.sessionId.s] = "closed")
          => (lastPost.status = 400 /\ lastPost.handledBy = ""))
  /\ \A sid \in SessionIds :
       (sessions[sid] = "open") ~> (sessions[sid] = "closed"
                                     /\ sid \notin DOMAIN transports)

C12_Witness ==
  /\ sessions["s1"] = "closed"
  /\ sessions["s2"] = "open"
  /\ lastPost # NoPost
  /\ lastPost.sessionId = JsStr("s1")
  /\ lastPost.status = 400
  /\ lastPost.registryKeys = {"s2"}

(***************************************************************************)
(* Claims about tool calls                                                 *)
(***************************************************************************)
\* C13: the response of every tool invocation goes out on the transport of the
\* session its request came in on, whatever other sessions were opened, used
\* or closed meanwhile; it is discarded only when that session itself is gone
C13_SessionBinding ==
  (lastDone # NoDone /\ pc = "listening") =>
    IF lastDone.session \in DOMAIN transports
      THEN lastDone.sentOn = lastDone.session
      ELSE lastDone.sentOn = "none"

\* arguments that pass the input schema of a registered tool
ArgumentsFor(handler) ==
  CASE handler.kind = "builtin" ->
         {[target |-> "db", query |-> "select 1"]}
    [] handler.kind = "generic" ->
         {[path |-> "a", requestMethod |-> m, parameters |-> [k1 |-> JsNum(42)]] :
            m \in {"GET", "POST", "get"}}
    [] OTHER ->
         {[i \in DOMAIN handler.inputSchema |-> JsStr("v")]}

\* C14: every invocation of every registered tool issues exactly one facade
\* operation and at most one outbound engine request: while it is in flight
\* and when it has settled, after a success and after a failure alike, it has
\* made one facade call, has none left to make, and has sent one request (none
\* with the test engine)
C14_SingleRoundTrip ==
  /\ \A invocation \in BagToSet(inflight) :
       /\ Len(invocation.issued) = 1
       /\ invocation.pending = <<>>
       /\ Len(invocation.requests) = 1
  /\ lastDone # NoDone =>
       /\ Len(lastDone.issued) = 1
       /\ Len(lastDone.requests) = (IF cfg.testMode THEN 0 ELSE 1)
  /\ Started =>
       \A n \in DOMAIN tools :
         \A arguments \in ArgumentsFor(tools[n]) :
           /\ Len(ToolHandler(tools[n], arguments)) = 1
           /\ Len(EngineClient(ToolHandler(tools[n], arguments)[1])) = 1

C14_Witness ==
  /\ lastDone # NoDone
  /\ lastDone.outcome.settled = "rejected"
  /\ lastDone.issued = << [op |-> "executeRequest",
                           request |-> [path |-> "a", requestMethod |-> "GET",
                                        parameters |-> [k1 |-> JsNum(42)]]] >>
  /\ Len(lastDone.requests) = 1
  /\ lastDone.requests[1].op = "executeEndpointOnGet"
  /\ BagCardinality(inflight) = 1

TextOf(outcome) == outcome.value.content[1].text.stringified

\* C15: a step in which the engine request of one invocation fails removes
\* that invocation from those in flight and changes nothing else: every other
\* invocation in flight, the registered tools, the session registry and the
\* server's position are as before; and an invocation whose own request
\* succeeds is fulfilled with the engine's data whatever failed before it
C15_FailureIsolation ==
  /\ [][(/\ inflight' # inflight
          /\ lastDone' # NoDone
          /\ lastDone'.outcome.settled = "rejected") =>
          /\ \E invocation \in BagToSet(inflight) :
               /\ invocation.name = lastDone'.name
               /\ invocation.session = lastDone'.session
               /\ inflight' = inflight (-) SetToBag({invocation})
          /\ tools' = tools
          /\ transports' = transports
          /\ sessions' = sessions
          /\ serverTransport' = serverTransport
          /\ pc' = pc
          /\ engineEndpoints' = engineEndpoints
       ]_vars
  /\ []((lastDone # NoDone /\ lastDone.outcome.settled = "fulfilled"
           /\ ~cfg.testMode) =>
          TextOf(lastDone.outcome)
            = IF lastDone.issued[1].op = "getEndpoints" THEN engineEndpoints
              ELSE JsObject("rows"))

C15_Witness ==
  /\ lastDone # NoDone
  /\ lastDone.outcome.settled = "rejected"
  /\ lastDone.name = "p_query_b"
  /\ BagCardinality(inflight) = 1
  /\ \E invocation \in BagToSet(inflight) :
       invocation.name = "p_system_get_database_status"
  /\ DOMAIN transports = {"s1", "s2"}

(***************************************************************************)
(* Claims about the facade's errors                                        *)
(***************************************************************************)
CallingMessage(request) ==
  "Error calling " \o OperationRequest[request.op].method \o " "
    \o OperationRequest[request.op].url

\* C16 as stated: every HTTP failure is surfaced as one EngineCallError with
\* the method, the URL, the status code, the response headers and the parsed
\* body, an empty object when the body is not structured; every non-HTTP
\* failure, DNS and connection failures included, propagates unchanged and is
\* no EngineCallError
C16_HttpOnlyTranslation ==
  \A i \in DOMAIN calls :
    LET reply == calls[i].reply
        request == calls[i].requests[Len(calls[i].requests)]
        settled == calls[i].settled
    IN
    reply.mode # "ok" =>
      /\ ~settled.ok
      /\ IF reply.mode = "http"
           THEN /\ settled.error.class = "EngineCallError"
                /\ settled.error.message = CallingMessage(request)
                /\ settled.error.status = JsNum(reply.status)
                /\ settled.error.headers = JsObject(reply.headers)
                /\ settled.error.error
                     = IF reply.body.t = "object" THEN reply.body
                       ELSE JsObject("{}")
           ELSE /\ settled.error.class # "EngineCallError"
                /\ settled.error = calls[i].rejection.error

\* C16 amended: every failure the client reports as an AxiosError, an HTTP
\* failure or a network failure (DNS, connection), is surfaced as one
\* EngineCallError with the method and URL in its message, the status code and
\* headers of the response (undefined without a response) and the body as
\* received, an empty object only when there is no response or the body is
\* null; every other failure propagates unchanged
C16_AxiosErrorTranslation ==
  \A i \in DOMAIN calls :
    LET reply == calls[i].reply
        request == calls[i].requests[Len(calls[i].requests)]
        settled == calls[i].settled
    IN
    reply.mode # "ok" =>
      /\ ~settled.ok
      /\ CASE reply.mode = "http" ->
                /\ settled.error.class = "EngineCallError"
                /\ settled.error.name = "EngineCallError"
                /\ settled.error.message = CallingMessage(request)
                /\ settled.error.status = JsNum(reply.status)
                /\ settled.error.headers = JsObject(reply.headers)
                /\ settled.error.error
                     = IF reply.body = null THEN JsObject("{}") ELSE reply.body
           [] reply.mode \in {"dns", "connection"} ->
                /\ settled.error.class = "EngineCallError"
                /\ settled.error.message = CallingMessage(request)
                /\ settled.error.status = undefined
                /\ settled.error.headers = undefined
                /\ settled.error.error = JsObject("{}")
           [] OTHER ->
                /\ settled.error.class # "EngineCallError"
                /\ settled.error = calls[i].rejection.error

C16_Witness ==
  \E i \in DOMAIN calls :
    /\ calls[i].call.op = "getSchema"
    /\ calls[i].reply.mode = "http"
    /\ calls[i].reply.status = 502
    /\ calls[i].settled.error.class = "EngineCallError"
    /\ calls[i].settled.error.message
         = "Error calling get /targets/{targetSlug}/schema"
    /\ calls[i].settled.error.error = JsStr("Bad Gateway")

(***************************************************************************)
(* Claims about failing tool calls and the registered tools                *)
(***************************************************************************)
\* C17: an invocation whose engine call fails settles as rejected with the
\* error of the facade, an EngineCallError or the native error, after one
\* request and no second attempt; the step changes neither the registered
\* tools nor the sessions nor the server's position, which stays serving; and
\* no schema is compiled once startup is over, so no tool call raises a
\* schema-compilation error
C17_FailurePropagates ==
  /\ []((lastDone # NoDone /\ lastDone.reply.mode \notin {"ok", "test"}) =>
          /\ lastDone.outcome.settled = "rejected"
          /\ lastDone.outcome.error.class
               = IF lastDone.reply.mode = "native" THEN "RequiredError"
                 ELSE "EngineCallError"
          /\ Len(lastDone.issued) = 1
          /\ Len(lastDone.requests) = 1
          /\ Started)
  /\ [][(lastDone' # NoDone /\ lastDone'.reply.mode \notin {"ok", "test"}) =>
          /\ tools' = tools
          /\ transports' = transports
          /\ sessions' = sessions
          /\ pc' = pc
       ]_vars
  /\ [][Started => (compiled' = compiled /\ Started')]_vars

C17_Witness ==
  /\ lastDone # NoDone
  /\ lastDone.reply.mode = "dns"
  /\ lastDone.outcome.settled = "rejected"
  /\ lastDone.outcome.error.class = "EngineCallError"
  /\ lastDone.outcome.error.status = undefined
  /\ pc = "listening"
  /\ DOMAIN tools # {}
  /\ DOMAIN transports = {"s1"}

\* C18: once the transport is exposed the registered tools never change again,
\* whatever sessions open or close, whatever tools are called and however the
\* engine's metadata changes: they are the tools startup registered, each
\* once, in static mode from the one snapshot of the one getEndpoints call
C18_RegisteredOnce ==
  /\ [][Started =>
          /\ tools' = tools
          /\ regLog' = regLog
          /\ snapshot' = snapshot
          /\ getEndpointsCalls' = getEndpointsCalls
       ]_vars
  /\ [](Started =>
          /\ getEndpointsCalls = (IF cfg.dynamicEndpointTools THEN 0 ELSE 1)
          /\ tools = startMcpServerTools(cfg, [ok |-> TRUE, data |-> snapshot])
          /\ NoDuplicates(regLog)
          /\ DOMAIN tools = {regLog[i] : i \in DOMAIN regLog})

C18_Witness ==
  /\ pc = "listening"
  /\ ~cfg.dynamicEndpointTools
  /\ snapshot = <<EpA, EpB>>
  /\ engineEndpoints = TestEndpoints
  /\ sessions["s1"] = "closed"
  /\ sessions["s2"] = "open"
  /\ lastDone # NoDone
  /\ lastDone.name = "p_query_b"
  /\ DOMAIN tools \ BuiltinToolNames = {"p_query_a", "p_query_b"}

\* C19: whether a prefix is set or not, an endpoint whose tool name (the name
\* it would be registered under, prefix included) is in the disable-list has
\* no tool after a static-mode startup
C19_DisabledByToolName ==
  (Started /\ ~cfg.dynamicEndpointTools) =>
    \A i \in DOMAIN snapshot :
      QueryToolName(snapshot[i]) \in cfg.disableTools =>
        /\ QueryToolName(snapshot[i]) \notin DOMAIN tools
        /\ \A n \in DOMAIN tools \ BuiltinToolNames :
             tools[n].path # snapshot[i].path

\* what a JSON-Schema fragment declares valid: a value of the declared type,
\* one of the enumerated values, an array whose items are all valid, a value
\* valid against exactly one alternative of a oneOf
RECURSIVE DeclaredValid(_, _)
DeclaredValid(jsonSchema, value) ==
  LET fields == DOMAIN jsonSchema IN
  /\ "type" \in fields =>
       value.t = jsonSchema.type
  /\ "enum" \in fields =>
       value \in {jsonSchema.enum.items[i] : i \in DOMAIN jsonSchema.enum.items}
  /\ "items" \in fields =>
       (value.t = "array" =>
          \A i \in DOMAIN value.items :
            DeclaredValid(jsonSchema.items, value.items[i]))
  /\ "oneOf" \in fields =>
       Cardinality({i \in DOMAIN jsonSchema.oneOf :
                      DeclaredValid(jsonSchema.oneOf[i], value)}) = 1

\* C20: for every supported fragment (string, number, boolean, object, enum,
\* an array of a supported item type, a oneOf of supported alternatives)
\* getZodSchemaFromJsonSchema returns a validator, and the validator accepts a
\* value exactly when the fragment declares it valid: values of another kind,
\* arrays with a non-conforming item and strings outside an enum are rejected
C20_ValidatorAgrees ==
  /\ lastParse.stage = "compiled" => lastParse.zodSchema.ok
  /\ lastParse.stage = "parsed" =>
       (lastParse.success
          <=> DeclaredValid(lastParse.jsonSchema, lastParse.value))

\* the original fragment under the draft marker: what the test expects when a
\* case declares no `expected`
Expected(jsonSchema) ==
  ("$schema" :> "http://json-schema.org/draft-07/schema#") @@ jsonSchema

RECURSIVE HasOneOf(_)
HasOneOf(jsonSchema) ==
  \/ "oneOf" \in DOMAIN jsonSchema
  \/ "items" \in DOMAIN jsonSchema /\ HasOneOf(jsonSchema.items)
  \/ "properties" \in DOMAIN jsonSchema
       /\ \E i \in DOMAIN jsonSchema.properties :
            HasOneOf(jsonSchema.properties[i].schema)

\* C21 as stated: for every fragment without a oneOf, converting the compiled
\* validator back gives the original fragment plus only the $schema marker
C21_RoundTripExact ==
  (lastParse.stage = "converted" /\ ~HasOneOf(lastParse.jsonSchema)) =>
    lastParse.converted = Expected(lastParse.jsonSchema)

\* the fragments that come back unchanged: string, number, boolean, a string
\* enum, an array of such an item type, and an object that declares its
\* properties (each such a fragment) with additionalProperties: false and the
\* non-optional properties listed in `required` in declaration order
RECURSIVE ComesBackUnchanged(_)
ComesBackUnchanged(jsonSchema) ==
  LET fields == DOMAIN jsonSchema IN
  CASE "oneOf" \in fields -> FALSE
    [] jsonSchema.type = "array" -> ComesBackUnchanged(jsonSchema.items)
    [] jsonSchema.type = "object" ->
         /\ "properties" \in fields
         /\ "additionalProperties" \in fields
         /\ jsonSchema.additionalProperties = JsBool(FALSE)
         /\ \A i \in DOMAIN jsonSchema.properties :
              ComesBackUnchanged(jsonSchema.properties[i].schema)
         /\ "required" \in fields =>
              LET names == [i \in DOMAIN jsonSchema.properties |->
                              jsonSchema.properties[i].name]
              IN
              /\ jsonSchema.required # <<>>
              /\ jsonSchema.required
                   = SelectSeq(names,
                               LAMBDA n : \E i \in DOMAIN jsonSchema.required :
                                            jsonSchema.required[i] = n)
    [] OTHER -> TRUE

\* C21, amended: the round trip is exact for exactly the fragments described
\* above; an object without declared properties comes back with
\* additionalProperties: {} added, as the test expects, and a oneOf comes back
\* as the empty schema
C21_RoundTrip ==
  lastParse.stage = "converted" =>
    /\ (lastParse.converted = Expected(lastParse.jsonSchema))
         <=> ComesBackUnchanged(lastParse.jsonSchema)
    /\ lastParse.jsonSchema = SObject =>
         lastParse.converted
           = Expected([type |-> "object", additionalProperties |-> AnySchema])
    /\ "oneOf" \in DOMAIN lastParse.jsonSchema =>
         lastParse.converted = Expected(AnySchema)

C21_Witness ==
  /\ lastParse.stage = "converted"
  /\ lastParse.jsonSchema = SComplex
  /\ lastParse.converted = Expected(SComplex)

\* the snapshot entry a per-endpoint tool was registered for
EndpointOf(name) ==
  snapshot[CHOOSE i \in DOMAIN snapshot : QueryToolName(snapshot[i]) = name]

\* the arguments supply every parameter that is not optional, and every
\* parameter they supply with a value its schema declares valid
Conforms(endpoint, arguments) ==
  \A i \in DOMAIN endpoint.params :
    IF endpoint.params[i].name \in DOMAIN arguments
      THEN DeclaredValid(endpoint.params[i].schema,
                         arguments[endpoint.params[i].name])
      ELSE endpoint.params[i].optional

\* the handler of the call ran: it awaits the engine or has settled
Accepted(invocation) == invocation.issued # <<>>

\* C22: a call of a per-endpoint tool is accepted exactly when every parameter
\* it omits is optional and every value it supplies conforms to the
\* parameter's schema: omitting an optional parameter is accepted, omitting a
\* parameter that is not optional is rejected
C22_OptionalOmission ==
  /\ \A invocation \in BagToSet(inflight) :
       tools[invocation.name].kind = "endpoint" =>
         Conforms(EndpointOf(invocation.name), invocation.arguments)
  /\ (lastDone # NoDone /\ tools[lastDone.name].kind = "endpoint") =>
       (Accepted(lastDone)
          <=> Conforms(EndpointOf(lastDone.name), lastDone.arguments))

\* C30: every invocation of a query_<path> tool calls executeRequest once, with
\* the path and the requestMethod of the snapshot entry the tool was registered
\* for and with the validated arguments (the declared parameters the caller
\* supplied) as parameters, whatever keys the caller sends and whatever the
\* engine's metadata has become since startup
DispatchesTo(invocation) ==
  LET endpoint == EndpointOf(invocation.name)
      declared == {endpoint.params[i].name : i \in DOMAIN endpoint.params}
  IN
  Accepted(invocation) =>
    /\ invocation.issued =
         << [op |-> "executeRequest",
             request |-> [path |-> endpoint.path,
                          requestMethod |-> endpoint.requestMethod,
                          parameters |->
                            [k \in DOMAIN invocation.arguments \cap declared |->
                               invocation.arguments[k]]]] >>
    /\ QueryToolName(endpoint) = invocation.name

C30_DispatchCaptured ==
  /\ \A invocation \in BagToSet(inflight) :
       tools[invocation.name].kind = "endpoint" => DispatchesTo(invocation)
  /\ (lastDone # NoDone /\ tools[lastDone.name].kind = "endpoint") =>
       DispatchesTo(lastDone)

C30_Witness ==
  /\ lastDone # NoDone
  /\ lastDone.name = "query_b"
  /\ Accepted(lastDone)
  /\ lastDone.arguments = [x |-> JsStr("v"), path |-> JsStr("f"),
                           requestMethod |-> JsStr("GET")]
  /\ lastDone.issued[1].request = [path |-> "b", requestMethod |-> "POST",
                                   parameters |-> [x |-> JsStr("v")]]
  /\ lastDone.requests[1].op = "executeEndpointOnPost"
  /\ engineEndpoints = <<EpB2>>
  /\ snapshot = <<EpB, EpF>>

\* C23: in test mode and static mode startup registers the tool of the mock
\* endpoint test, and a call of it with empty arguments is answered with one
\* text block whose payload is what the mock facade's executeRequest resolves
\* with for path "test", method "GET" and empty parameters
C23_TestEndpointTool ==
  (Started /\ cfg.testMode /\ ~cfg.dynamicEndpointTools) =>
    /\ snapshot = TestEndpoints
    /\ QueryToolName(TestEndpoints[1]) \in DOMAIN tools
    /\ (lastDone # NoDone /\ lastDone.name = QueryToolName(TestEndpoints[1])
          /\ lastDone.arguments = NoArguments) =>
         /\ lastDone.outcome.settled = "fulfilled"
         /\ lastDone.outcome.value.content =
              << [type |-> "text", mimeType |-> "application/json",
                  text |-> [stringified |->
                              [args |-> [path |-> "test",
                                         requestMethod |-> "GET",
                                         parameters |-> NoArguments]]]] >>

C23_Witness ==
  /\ Started
  /\ cfg.testMode
  /\ ~cfg.dynamicEndpointTools
  /\ lastDone # NoDone
  /\ lastDone.name = "query_test"
  /\ lastDone.arguments = NoArguments
  /\ lastDone.outcome.settled = "fulfilled"
  /\ Len(lastDone.outcome.value.content) = 1

\* C24: in test mode a call of the per-target status tool is always fulfilled,
\* never rejected: with {ok: false} for the slug test-db-down and with
\* {ok: true} for every other slug
C24_TestStatusTool ==
  (cfg.testMode /\ lastDone # NoDone
     /\ lastDone.name = ToolName(cfg.toolPrefix, "system_get_database_status")) =>
    /\ lastDone.outcome.settled = "fulfilled"
    /\ Len(lastDone.outcome.value.content) = 1
    /\ lastDone.arguments.target = "test-db-down" =>
         lastDone.outcome.value.content[1].text = [stringified |-> [ok |-> FALSE]]
    /\ lastDone.arguments.target # "test-db-down" =>
         lastDone.outcome.value.content[1].text = [stringified |-> [ok |-> TRUE]]

C24_Witness ==
  /\ cfg.testMode
  /\ lastDone # NoDone
  /\ lastDone.name = "p_system_get_database_status"
  /\ cfg.disableTools = {"system_get_status"}
  /\ lastDone.arguments.target = "test-db-down"
  /\ lastDone.outcome.settled = "fulfilled"
  /\ lastDone.outcome.value.content[1].text = [stringified |-> [ok |-> FALSE]]

\* the getEndpoints calls among the facade calls of an invocation
GetEndpointsIssued(invocation) ==
  Cardinality({i \in DOMAIN invocation.issued :
                 invocation.issued[i].op = "getEndpoints"})

\* the invocations that await the engine or have just settled
Invocations == BagToSet(inflight) \cup (IF lastDone = NoDone THEN {} ELSE {lastDone})

\* C25: in static mode startup calls getEndpoints once, before it registers
\* any per-endpoint tool, and nothing calls it again; in dynamic mode startup
\* does not call it, and an invocation of system_get_endpoints calls it exactly
\* once while no other tool calls it
C25_FetchCount ==
  /\ [](~cfg.dynamicEndpointTools =>
          /\ getEndpointsCalls <= 1
          /\ Started => getEndpointsCalls = 1
          /\ DOMAIN tools \ BuiltinToolNames # {} => getEndpointsCalls = 1
          /\ \A invocation \in Invocations : GetEndpointsIssued(invocation) = 0)
  /\ [][getEndpointsCalls' # getEndpointsCalls =>
          /\ ~cfg.dynamicEndpointTools
          /\ ~Started
          /\ getEndpointsCalls = 0
          /\ getEndpointsCalls' = 1
          /\ DOMAIN tools \subseteq BuiltinToolNames
          /\ snapshot = <<>>
       ]_vars
  /\ [](cfg.dynamicEndpointTools =>
          /\ getEndpointsCalls = 0
          /\ \A invocation \in Invocations :
               GetEndpointsIssued(invocation) =
                 IF invocation.name
                      = ToolName(cfg.toolPrefix, "system_get_endpoints")
                   THEN 1 ELSE 0)

C25_Witness ==
  /\ cfg.dynamicEndpointTools
  /\ ~cfg.testMode
  /\ Started
  /\ getEndpointsCalls = 0
  /\ lastDone # NoDone
  /\ lastDone.name = "system_get_endpoints"
  /\ lastDone.issued = << [op |-> "getEndpoints"] >>
  /\ lastDone.outcome.settled = "fulfilled"
  /\ \E invocation \in BagToSet(inflight) : invocation.name = "call_endpoint"

\* no client is connected and nothing was received or answered
NothingExposed ==
  /\ DOMAIN transports = {}
  /\ \A sid \in SessionIds : sessions[sid] = "unopened"
  /\ serverTransport = "none"
  /\ inflight = NoInvocations
  /\ lastDone = NoDone
  /\ lastPost = NoPost

\* every registration of startMcpServer has been made
RegistrationComplete ==
  /\ builtinIdx > Len(BuiltinTools)
  /\ ~cfg.dynamicEndpointTools => getEndpointsCalls = 1 /\ epIdx > Len(snapshot)
  /\ tools = startMcpServerTools(cfg, [ok |-> TRUE, data |-> snapshot])

\* C26: the listener is started or the stdio transport connected only when
\* every tool registration is complete, so that no session is open and no
\* message handled while the tool set is partial; an instance runs one of the
\* two transport modes, the HTTP one exactly when a port is configured
C26_ExposedAfterRegistration ==
  /\ [](~Started => NothingExposed)
  /\ [](Started => RegistrationComplete)
  /\ [][(~Started /\ Started') => (pc = "expose" /\ RegistrationComplete)]_vars
  /\ [][Started => pc' = pc]_vars
  /\ [](pc = "listening" => (cfg.port # "" /\ serverTransport # "stdio"))
  /\ [](pc = "stdio" =>
          /\ cfg.port = ""
          /\ serverTransport = "stdio"
          /\ DOMAIN transports = {}
          /\ \A sid \in SessionIds : sessions[sid] = "unopened")

C26_Witness ==
  /\ pc = "listening"
  /\ ~cfg.dynamicEndpointTools
  /\ sessions["s1"] = "open"
  /\ lastPost # NoPost
  /\ lastPost.status = 202
  /\ RegistrationComplete
  /\ DOMAIN tools \ BuiltinToolNames = {"p_query_a", "p_query_b"}

\* C27: the schemas of an endpoint are compiled before the disable-list is
\* consulted: a parameter without schema, or with one that does not compile,
\* aborts addEndpoints at that endpoint also when the endpoint is in the
\* disable-list; the endpoints before it that are not in the list are
\* registered already, the endpoints from it on never are, and the schemas of
\* every endpoint taken up, listed or not, were handed to the compiler
C27_CompiledBeforeDisableList ==
  (Settled /\ ~cfg.dynamicEndpointTools) =>
    /\ \A i \in DOMAIN snapshot :
         (CompileFails(snapshot[i]) /\ \A j \in 1..(i - 1) : Reached(j + 1)) =>
           /\ pc = "rejected"
           /\ epIdx = i
           /\ startError = parameterEntries(snapshot[i].params,
                                            snapshot[i].path).error
           /\ DOMAIN tools \ BuiltinToolNames
                = {QueryToolName(snapshot[j]) :
                     j \in {k \in 1..(i - 1) : ~Listed(snapshot[k])}}
    /\ \A i \in DOMAIN snapshot :
         (Reached(i) /\ ~CompileFails(snapshot[i])) =>
           \A k \in DOMAIN snapshot[i].params :
             \E c \in DOMAIN compiled :
               compiled[c] = [path |-> snapshot[i].path,
                              param |-> snapshot[i].params[k].name,
                              schema |-> snapshot[i].params[k].schema]

C27_Witness ==
  /\ pc = "rejected"
  /\ ~cfg.dynamicEndpointTools
  /\ cfg.disableTools = {"query_d"}
  /\ snapshot = <<EpB, EpD>>
  /\ epIdx = 2
  /\ startError.name = "ZodSchemaConversionError"
  /\ DOMAIN tools \ BuiltinToolNames = {QueryToolName(EpB)}

(***************************************************************************)
(* C28: the registry while server.connect is pending                       *)
(***************************************************************************)
\* a POST whose sessionId names a session whose connect is still pending
PostedWhileConnecting ==
  /\ lastPost # NoPost
  /\ lastPost.sessionId.t = "string"
  /\ lastPost.sessionId.s \in SessionIds
  /\ sessions[lastPost.sessionId.s] = "connecting"

\* C28: the step of GET /sse that ends at the await has already stored the
\* transport under its session id, so while connect is pending the entry is
\* there, a POST with that session id is handed to that transport's
\* handlePostMessage and not answered 400, and a close event handled before
\* connect completes deletes the entry
C28_InsertBeforeConnect ==
  /\ [][\A sid \in SessionIds :
          (sessions[sid] = "unopened" /\ sessions'[sid] # "unopened") =>
            /\ sessions'[sid] = "connecting"
            /\ sid \in DOMAIN transports'
            /\ transports'[sid].sessionId = sid]_vars
  /\ [](\A sid \in SessionIds :
          sessions[sid] = "connecting" => sid \in DOMAIN transports)
  /\ [](PostedWhileConnecting =>
          /\ lastPost.status # 400
          /\ lastPost.handledBy = lastPost.sessionId.s)
  /\ [][\A sid \in SessionIds :
          (sessions[sid] = "connecting" /\ sessions'[sid] = "closed") =>
            /\ sid \in DOMAIN transports
            /\ sid \notin DOMAIN transports']_vars

\* the second session is closed while its connect is pending, and a POST with
\* the id of the first, still connecting, has just been handled by it
C28_Witness ==
  /\ sessions["s1"] = "connecting"
  /\ sessions["s2"] = "closed"
  /\ DOMAIN transports = {"s1"}
  /\ PostedWhileConnecting
  /\ lastPost.sessionId = JsStr("s1")
  /\ lastPost.status = 202
  /\ lastPost.handledBy = "s1"

(***************************************************************************)
(* C29: the session registry                                               *)
(***************************************************************************)
\* the sessions GET /sse has opened whose close event has not been handled
LiveSessions == {sid \in SessionIds : sessions[sid] \in {"connecting", "open"}}

\* C29: in every reachable state each key of the registry is the sessionId of
\* the transport stored under it, every session that is open has one entry and
\* no more, and the keys are exactly the sessions that were opened and whose
\* close event has not yet been handled
C29_RegistryInvariant ==
  /\ \A key \in DOMAIN transports : transports[key].sessionId = key
  /\ \A sid \in LiveSessions :
       Cardinality({key \in DOMAIN transports :
                      transports[key].sessionId = sid}) = 1
  /\ DOMAIN transports = LiveSessions

\* the first session was opened and closed, the second is connected: the
\* registry holds the second alone
C29_Witness ==
  /\ sessions["s1"] = "closed"
  /\ sessions["s2"] = "open"
  /\ DOMAIN transports = {"s2"}
  /\ transports["s2"].sessionId = "s2"

====
